---- MODULE Spec2Model ----
(***************************************************************************)
(* Model of batchi's job resolution engine (core/resolve): the function    *)
(* resolveJobChain, which stitches a Batch job to its ECS task, EC2 host,  *)
(* compute environment, VPC and log tail, and the helper resolveTask.      *)
(*                                                                         *)
(* Strings that the code parses (ARNs) are sequences of tokens: the        *)
(* separators ":" and "/" and atoms, an atom standing for a non-empty run  *)
(* of characters that holds no separator.  An absent or empty string is    *)
(* the empty sequence (both are falsy in the code).  Opaque identifiers    *)
(* (instance id, ENI id, VPC id ...) are plain strings, "" when absent.    *)
(***************************************************************************)
EXTENDS Integers, Sequences, FiniteSets, TLC

\* ------------------------------------------------------------------ bounds
MaxClusters == 2
\* the clusters on one page of the orchestrator's cluster listing
ClusterPage == 2

\* ------------------------------------------------------- strings and ARNs
COLON == ":"
SLASH == "/"
NoArn == <<>>
NoStr == ""

\* atoms matching [A-Za-z0-9-]+
IdAtoms == {"arn", "aws", "ecs", "r1", "a1", "task", "cluster",
            "container-instance", "c1", "c2", "c3", "t1", "ci1", "ci2"}

RECURSIVE LastIndexOf(_, _, _)
LastIndexOf(s, tok, n) ==
  IF n = 0 THEN 0
  ELSE IF s[n] = tok THEN n ELSE LastIndexOf(s, tok, n - 1)

RECURSIVE Split(_, _)
\* String.prototype.split(sep): the parts between the separators
Split(s, sep) ==
  IF \A k \in 1..Len(s) : s[k] # sep THEN <<s>>
  ELSE LET i == CHOOSE k \in 1..Len(s) :
                  s[k] = sep /\ \A m \in 1..(k - 1) : s[m] # sep
       IN <<SubSeq(s, 1, i - 1)>> \o Split(SubSeq(s, i + 1, Len(s)), sep)

\* arn.match(/:<kind>\/([^/]+)\/[A-Za-z0-9-]+$/)?.[1]
ClusterSegment(arn, kind) ==
  LET n == Len(arn)
      j == LastIndexOf(arn, SLASH, n)
      i == LastIndexOf(arn, SLASH, j - 1)
  IN IF arn = NoArn THEN NoArn
     ELSE IF j = 0 \/ j = n THEN NoArn
     ELSE IF \E k \in (j + 1)..n : arn[k] \notin IdAtoms THEN NoArn
     ELSE IF i < 3 \/ i = j - 1 THEN NoArn
     ELSE IF arn[i - 1] # kind \/ arn[i - 2] # COLON THEN NoArn
     ELSE SubSeq(arn, i + 1, j - 1)

\* `arn:aws:ecs:${region}:${account}:cluster/${name}`
ClusterArnTemplate(region, account, name) ==
  <<"arn", COLON, "aws", COLON, "ecs", COLON>> \o region \o <<COLON>>
     \o account \o <<COLON, "cluster", SLASH>> \o name

ClusterArnFromParts(arn, name) ==
  LET parts == Split(arn, COLON)
  IN IF arn = NoArn THEN NoArn
     ELSE IF Len(parts) < 6 THEN NoArn
     ELSE IF parts[4] = NoArn \/ parts[5] = NoArn \/ name = NoArn THEN NoArn
     ELSE ClusterArnTemplate(parts[4], parts[5], name)

\* a parser that takes the last path segment of the ARN, the task id
clusterFromTaskArnLastSegment(arn) ==
  LET j == LastIndexOf(arn, SLASH, Len(arn))
  IN IF arn = NoArn \/ j = 0 THEN NoArn ELSE SubSeq(arn, j + 1, Len(arn))

clusterFromTaskArn(arn) == ClusterSegment(arn, "task")

clusterArnFromTaskArn(arn) == ClusterArnFromParts(arn, clusterFromTaskArn(arn))

clusterFromContainerInstanceArn(arn) == ClusterSegment(arn, "container-instance")

clusterArnFromContainerInstanceArn(arn) ==
  ClusterArnFromParts(arn, clusterFromContainerInstanceArn(arn))

\* a || b for strings
Or(a, b) == IF a # NoArn THEN a ELSE b
OrS(a, b) == IF a # NoStr THEN a ELSE b

\* a selection of the first element, the oldest attempt
first(arr, none) == IF Len(arr) > 0 THEN arr[1] ELSE none

\* last(arr)
last(arr, none) == IF Len(arr) > 0 THEN arr[Len(arr)] ELSE none

\* -------------------------------------------------- the services' state
\* The clusters of the account, by name; every one is in region r1, account a1.
\* A DescribeTasks without a cluster goes to the cluster named "default".
ClusterOrder == <<"c1", "c2", "c3">>
Clusters == {"default"} \cup {ClusterOrder[k] : k \in 1..Len(ClusterOrder)}
ArnOf(c) == ClusterArnTemplate(<<"r1">>, <<"a1">>, <<c>>)

\* The cluster an identifier (ARN or short name) designates, "" when none.
ClusterOf(id) ==
  IF id = NoArn THEN "default"
  ELSE IF \E c \in Clusters : id = ArnOf(c) \/ id = <<c>>
  THEN CHOOSE c \in Clusters : id = ArnOf(c) \/ id = <<c>>
  ELSE NoStr

\* Task ARNs a job may carry: the long form (with the cluster segment) and the
\* short form (without it).
TaskArnLong == <<"arn", COLON, "aws", COLON, "ecs", COLON, "r1", COLON, "a1",
                 COLON, "task", SLASH, "c1", SLASH, "t1">>
TaskArnShort == <<"arn", COLON, "aws", COLON, "ecs", COLON, "r1", COLON, "a1",
                  COLON, "task", SLASH, "t1">>
TaskArnEarlier == <<"arn", COLON, "aws", COLON, "ecs", COLON, "r1", COLON, "a1",
                    COLON, "task", SLASH, "c3", SLASH, "t0">>
CiArnJob == <<"arn", COLON, "aws", COLON, "ecs", COLON, "r1", COLON, "a1",
              COLON, "container-instance", SLASH, "c1", SLASH, "ci1">>
CiArnShort == <<"arn", COLON, "aws", COLON, "ecs", COLON, "r1", COLON, "a1",
                COLON, "container-instance", SLASH, "ci1">>
CiArnTask == <<"arn", COLON, "aws", COLON, "ecs", COLON, "r1", COLON, "a1",
               COLON, "container-instance", SLASH, "c1", SLASH, "ci2">>

NoTask == [present |-> FALSE, clusterArn |-> NoArn, containerInstanceArn |-> NoArn]

\* The records the orchestrator may keep for the task held by cluster c:
\* clusterArn and containerInstanceArn are optional fields of a task record.
TaskRecords(c) ==
  {[present |-> TRUE, clusterArn |-> ca, containerInstanceArn |-> ci] :
     ca \in {NoArn, ArnOf(c)}, ci \in {NoArn, CiArnTask}}

\* The command and the environment pairs of the container whose image is img:
\* they differ from container to container as the image does.  One pair has no
\* name, and the name K comes twice.
CommandOf(img) == <<"run", img>>
EnvPairsOf(img) ==
  <<[name |-> "K", value |-> "k1"], [name |-> NoStr, value |-> "anon"],
    [name |-> "L", value |-> img], [name |-> "K", value |-> img]>>

\* A container record: of an attempt (runtime) or of the job (declared).
Container(t, ci, enis, ls, img) ==
  [present |-> TRUE, taskArn |-> t, containerInstanceArn |-> ci,
   networkInterfaces |-> enis, logStreamName |-> ls, image |-> img,
   command |-> CommandOf(img), environment |-> EnvPairsOf(img)]
NoContainer == [present |-> FALSE, taskArn |-> NoArn, containerInstanceArn |-> NoArn,
                networkInterfaces |-> <<>>, logStreamName |-> NoStr, image |-> NoStr,
                command |-> <<>>, environment |-> <<>>]

\* An attempt that is not the latest one: its data differs from every other record.
EarlierAttempt ==
  [container |-> Container(TaskArnEarlier, CiArnShort, <<"eni-0">>, "ls-0", "img-0")]

Job(plat, attempts, c, ce) ==
  [present |-> TRUE, jobId |-> "job-1", platformCapabilities |-> plat,
   attempts |-> attempts, container |-> c, jobQueue |-> "q1", computeEnvironment |-> ce]
NoJob == [present |-> FALSE, jobId |-> "job-1", platformCapabilities |-> <<>>,
          attempts |-> <<>>, container |-> NoContainer, jobQueue |-> NoStr,
          computeEnvironment |-> NoStr]

\* Compute environments: ecsClusterArn and computeResources.subnets.
NoCe == [present |-> FALSE, computeEnvironmentArn |-> NoStr, ecsClusterArn |-> NoArn,
         subnets |-> <<>>]
CeTable(ce) ==
  CASE ce = "ceA" -> [present |-> TRUE, computeEnvironmentArn |-> "ceA",
                      ecsClusterArn |-> ArnOf("c1"), subnets |-> <<"sub-3", "sub-4">>]
    [] ce = "ceB" -> [present |-> TRUE, computeEnvironmentArn |-> "ceB",
                      ecsClusterArn |-> ArnOf("c2"), subnets |-> <<>>]
    [] ce = "ceN" -> [present |-> TRUE, computeEnvironmentArn |-> "ceN",
                      ecsClusterArn |-> NoArn, subnets |-> <<>>]
    [] OTHER -> NoCe

\* computeEnvironmentOrder of queue q1.
QueueOrders == {<<>>, <<"ceN">>, <<"ceA", "ceB">>, <<"ceB", "ceA">>}

\* What ListClusters returns: the first k clusters, in either order.
Reverse(s) == [i \in 1..Len(s) |-> s[Len(s) + 1 - i]]
ClusterLists ==
  LET names == { SubSeq(ClusterOrder, 1, k) : k \in 0..MaxClusters }
      arns(l) == [i \in 1..Len(l) |-> ArnOf(l[i])]
  IN { arns(l) : l \in names } \cup { arns(Reverse(l)) : l \in names }

\* The clusters that may hold the task ("": no cluster holds it).
Holders == {NoStr, "default"} \cup {ClusterOrder[k] : k \in 1..MaxClusters}

\* Records of the EC2 service.
NoInstance == [present |-> FALSE, VpcId |-> NoStr, SubnetId |-> NoStr]
InstanceRecords ==
  { [present |-> TRUE, VpcId |-> "vpc-1", SubnetId |-> "sub-1"],
    [present |-> TRUE, VpcId |-> NoStr, SubnetId |-> "sub-1"],
    [present |-> TRUE, VpcId |-> NoStr, SubnetId |-> NoStr] }
NoEni == [present |-> FALSE, InstanceId |-> NoStr, VpcId |-> NoStr, SubnetId |-> NoStr]
EniRecords ==
  { [present |-> TRUE, InstanceId |-> "i-2", VpcId |-> "vpc-2", SubnetId |-> "sub-2"],
    [present |-> TRUE, InstanceId |-> NoStr, VpcId |-> "vpc-2", SubnetId |-> "sub-2"],
    [present |-> TRUE, InstanceId |-> NoStr, VpcId |-> NoStr, SubnetId |-> "sub-2"] }
NoVpcRecord == [present |-> FALSE, Tags |-> <<>>, Ipv6CidrBlockAssociationSet |-> <<>>]
VpcRecords ==
  { [present |-> TRUE,
     Tags |-> <<[Key |-> "env", Value |-> "prod"], [Key |-> "Name", Value |-> "main"]>>,
     Ipv6CidrBlockAssociationSet |-> <<NoStr, "fd00::/56">>],
    [present |-> TRUE, Tags |-> <<>>, Ipv6CidrBlockAssociationSet |-> <<>>] }
NoVpc == [present |-> FALSE, vpcId |-> NoStr, name |-> NoStr, ipv6CidrBlock |-> NoStr]

\* Log streams: the messages of the events, oldest first.
LogStreams == { <<>>, <<" ">>, <<"a", " ", "b ">>, <<"a", "b ", "c">> }
NoLines == [present |-> FALSE, lines |-> <<>>]

\* String.prototype.trim on the messages above
Trim(m) == CASE m = " " -> NoStr [] m = "b " -> "b" [] OTHER -> m

\* Array.prototype.slice(-n), n >= 1
SliceLast(s, n) == IF Len(s) <= n THEN s ELSE SubSeq(s, Len(s) - n + 1, Len(s))

\* Array.prototype.filter(Boolean) on strings
FilterNonEmpty(s) == SelectSeq(s, LAMBDA m : m # NoStr)

\* Array.prototype.find: the first element satisfying Test, else none
FindFirst(s, Test(_), none) ==
  IF \E i \in 1..Len(s) : Test(s[i])
  THEN s[CHOOSE i \in 1..Len(s) : Test(s[i]) /\ \A k \in 1..(i - 1) : ~Test(s[k])]
  ELSE none

\* The operations of the four clients.
TaskOps == {"DescribeTasks", "ListClusters", "ListTasks"}
HostOps == {"DescribeContainerInstances", "DescribeNetworkInterfaces", "DescribeInstances"}
BatchOps == {"DescribeJobQueues", "DescribeComputeEnvironments"}
NetOps == {"DescribeSubnets", "DescribeVpcs", "GetLogEvents"}
Ops == TaskOps \cup HostOps \cup BatchOps \cup NetOps

\* ------------------------------------------------------------- the state
VARIABLES
  batch,          \* scheduler: [job, ceOrder] (the job's record, its queue's order)
  ecs,            \* orchestrator: [holder, task, clusterArns, ciInstance]
  ec2,            \* compute: [eni, inst, subnetVpc, vpcRec]
  logs,           \* log storage: [stream]
  faulty,         \* the operations that throw when called (throttled, denied)
  opts,           \* the options given to resolveJobChain: [logLines], 0 = not given
  pc,             \* position in resolveJobChain
  error,          \* the error resolveJobChain threw, "" if none
  calls,          \* the service calls issued so far, in order
  threw,          \* some service call threw and was caught
  ecsClusterArn, ecsTask, containerInstanceArn,
  ceArn,          \* first compute environment of the queue (cluster hint)
  list, idx,      \* cluster enumeration in progress
  ec2InstanceId, ec2Instance,
  computeEnvironmentArn, computeEnvironment, ceArns,
  vpcId, subnetId, vpc,
  lastLogLines,
  cmd,            \* the logs command's options: [stream, follow, fromStart, logLines]
  lpc,            \* position in the logs command's action, "off" when it is not run
  streamName,     \* the logs command's logStreamName
  nextToken,      \* follow mode: the continuation token, -1 = undefined
  initialized,    \* follow mode: the first page was fetched
  emitted,        \* follow mode: the events written so far, [event, batch]
  batches,        \* follow mode: the number of non-empty batches written
  printed,        \* fetch mode: the lines written
  exitCode,       \* process.exitCode
  env,            \* process.env: [BATCHI_DEBUG], "" when unset
  prior           \* the outcome of an earlier run in the same world, kept to compare

worldVars == <<batch, ecs, ec2, logs, faulty, opts>>
taskVars == <<ecsClusterArn, ecsTask, containerInstanceArn, ceArn, list, idx>>
hostVars == <<ec2InstanceId, ec2Instance>>
ceVars == <<computeEnvironmentArn, computeEnvironment, ceArns>>
vpcVars == <<vpcId, subnetId, vpc>>
cmdVars == <<cmd, lpc, streamName, nextToken, initialized, emitted, batches, printed, exitCode>>
runVars == <<env, prior>>
vars == <<worldVars, pc, error, calls, threw, taskVars, hostVars, ceVars, vpcVars,
          lastLogLines, cmdVars, runVars>>

\* cluster: the cluster the request names, if any; for a request for a network
\* interface, the interface
Call(op, label, cluster, ok) ==
  [op |-> op, label |-> label, cluster |-> cluster, ok |-> ok]

\* client.send(command): the call is recorded; ok tells that it returned a record
Issue(op, label, cluster, ok) == calls' = Append(calls, Call(op, label, cluster, ok))

\* The call throws: every catch block of resolveJobChain only logs (dbe).
Throws(op, label, cluster) ==
  /\ op \in faulty
  /\ Issue(op, label, cluster, FALSE)
  /\ threw' = TRUE

\* lines 63-65: debugOn(); dbg and dbe write to stderr only when it holds
debugOn == env.BATCHI_DEBUG \in {"1", "true"}

\* ------------------------------------- what resolveJobChain reads off the job
job == batch.job
attemptContainer == last(job.attempts, [container |-> NoContainer]).container
jobContainer == job.container
container == IF attemptContainer.present THEN attemptContainer ELSE jobContainer
taskArn == Or(attemptContainer.taskArn, jobContainer.taskArn)
logStreamName == OrS(attemptContainer.logStreamName, jobContainer.logStreamName)
image == jobContainer.image
command == jobContainer.command

\* lines 261-265: the pairs reduced to a map by name; a pair without a name is
\* skipped and a later pair overrides an earlier one of the same name
EnvironmentMap(pairs) ==
  LET named == {i \in 1..Len(pairs) : pairs[i].name # NoStr}
  IN [n \in {pairs[i].name : i \in named} |->
        pairs[CHOOSE i \in named :
                pairs[i].name = n /\ \A k \in named : pairs[k].name = n => k <= i].value]
environment == EnvironmentMap(jobContainer.environment)
isFargateJob ==
  \E i \in 1..Len(job.platformCapabilities) : job.platformCapabilities[i] = "FARGATE"

parsedClusterArn == clusterArnFromTaskArn(taskArn)
parsedClusterName == clusterFromTaskArn(taskArn)

\* DescribeTasks(cluster, [the job's task]): the task's record when the
\* identifier designates the cluster that holds the task, else no task.
TaskIn(cluster) ==
  IF ecs.holder # NoStr /\ ClusterOf(cluster) = ecs.holder THEN ecs.task ELSE NoTask

\* --------------------------------------------- resolveJobChain: the job
\* lines 231-234 and 296-299
\* the same call without the check of line 234: a missing job goes on
DescribeJobsUnchecked ==
  /\ pc = "start"
  /\ Issue("DescribeJobs", "job", NoArn, job.present)
  /\ pc' = "hintJQ"
  /\ containerInstanceArn' =
       Or(attemptContainer.containerInstanceArn, jobContainer.containerInstanceArn)
  /\ UNCHANGED <<runVars, cmdVars, worldVars, error, threw, ecsClusterArn, ecsTask, ceArn, list, idx,
                 hostVars, ceVars, vpcVars, lastLogLines>>

DescribeJobs ==
  /\ pc = "start"
  /\ Issue("DescribeJobs", "job", NoArn, job.present)
  /\ \/ /\ ~job.present
        /\ pc' = "thrown"
        /\ error' = "Job not found"
        /\ UNCHANGED containerInstanceArn
     \/ /\ job.present
        /\ pc' = "hintJQ"
        /\ containerInstanceArn' =
             Or(attemptContainer.containerInstanceArn, jobContainer.containerInstanceArn)
        /\ UNCHANGED error
  /\ UNCHANGED <<runVars, cmdVars, worldVars, threw, ecsClusterArn, ecsTask, ceArn, list, idx,
                 hostVars, ceVars, vpcVars, lastLogLines>>

\* line 301: with a task ARN the task is looked up, else the host comes next
\* a task block entered whatever the task ARN
AfterHintAlways == "tParsedArn"

AfterHint == IF taskArn # NoArn THEN "tParsedArn" ELSE "ci"

\* lines 274-281: DescribeJobQueues of the job's queue
HintDescribeJobQueues ==
  /\ pc = "hintJQ"
  /\ \/ /\ Throws("DescribeJobQueues", "hint", NoArn)
        /\ pc' = AfterHint
        /\ UNCHANGED ceArn
     \/ /\ Issue("DescribeJobQueues", "hint", NoArn, Len(batch.ceOrder) > 0)
        /\ IF Len(batch.ceOrder) = 0
           THEN pc' = AfterHint /\ UNCHANGED ceArn
           ELSE pc' = "hintCE" /\ ceArn' = batch.ceOrder[1]
        /\ UNCHANGED threw
  /\ UNCHANGED <<runVars, cmdVars, worldVars, error, ecsClusterArn, ecsTask, containerInstanceArn,
                 list, idx, hostVars, ceVars, vpcVars, lastLogLines>>

\* lines 282-294: DescribeComputeEnvironments of the queue's first one
HintDescribeComputeEnvironments ==
  /\ pc = "hintCE"
  /\ \/ /\ Throws("DescribeComputeEnvironments", "hint", NoArn)
        /\ UNCHANGED ecsClusterArn
     \/ /\ Issue("DescribeComputeEnvironments", "hint", NoArn, CeTable(ceArn).present)
        /\ ecsClusterArn' = CeTable(ceArn).ecsClusterArn
        /\ UNCHANGED threw
  /\ pc' = AfterHint
  /\ UNCHANGED <<runVars, cmdVars, worldVars, error, ecsTask, containerInstanceArn, ceArn, list, idx,
                 hostVars, ceVars, vpcVars, lastLogLines>>

\* ------------------------------- resolveJobChain: the task (lines 301-417)
TaskFrame == UNCHANGED <<runVars, cmdVars, worldVars, error, ceArn, hostVars, ceVars, vpcVars, lastLogLines>>

\* ecs.send(new DescribeTasksCommand({cluster, tasks})): it throws, or answers
\* with t, the task's record (NoTask: r.tasks is empty)
DescribeTasks(label, cluster, t) ==
  \/ /\ Throws("DescribeTasks", label, cluster)
     /\ t = NoTask
  \/ /\ t = TaskIn(cluster)
     /\ Issue("DescribeTasks", label, cluster, t.present)
     /\ UNCHANGED threw

\* `if (!ecsTask)` guards of lines 335, 349, 359, 382
\* guards that also give up when the job was resolved before
UnlessSeenBefore(task, position) ==
  IF task.present \/ prior.done THEN "taskEnd" ELSE position

Unless(task, position) == IF task.present THEN "taskEnd" ELSE position

\* lines 305-318
TryParsedArn ==
  /\ pc = "tParsedArn"
  /\ \/ /\ parsedClusterArn = NoArn
        /\ UNCHANGED <<calls, threw, ecsTask, ecsClusterArn>>
     \/ /\ parsedClusterArn # NoArn
        /\ \E t \in {NoTask, TaskIn(parsedClusterArn)} :
             /\ DescribeTasks("parsedClusterArn", parsedClusterArn, t)
             /\ IF t.present
                THEN /\ ecsTask' = t
                     /\ ecsClusterArn' = Or(t.clusterArn, parsedClusterArn)
                ELSE UNCHANGED <<ecsTask, ecsClusterArn>>
  /\ pc' = "tHint"
  /\ UNCHANGED <<containerInstanceArn, list, idx>>
  /\ TaskFrame

\* lines 320-332
TryHinted ==
  /\ pc = "tHint"
  /\ \/ /\ ecsClusterArn = NoArn
        /\ UNCHANGED <<calls, threw, ecsTask>>
     \/ /\ ecsClusterArn # NoArn
        /\ \E t \in {NoTask, TaskIn(ecsClusterArn)} :
             /\ DescribeTasks("hintedClusterArn", ecsClusterArn, t)
             /\ IF t.present THEN ecsTask' = t ELSE UNCHANGED ecsTask
  /\ pc' = Unless(ecsTask', "tName")
  /\ UNCHANGED <<ecsClusterArn, containerInstanceArn, list, idx>>
  /\ TaskFrame

\* lines 334-346
TryParsedName ==
  /\ pc = "tName"
  /\ \/ /\ parsedClusterName = NoArn
        /\ UNCHANGED <<calls, threw, ecsTask>>
     \/ /\ parsedClusterName # NoArn
        /\ \E t \in {NoTask, TaskIn(parsedClusterName)} :
             /\ DescribeTasks("parsedCluster", parsedClusterName, t)
             /\ IF t.present THEN ecsTask' = t ELSE UNCHANGED ecsTask
  /\ pc' = Unless(ecsTask', "tNoCluster")
  /\ UNCHANGED <<ecsClusterArn, containerInstanceArn, list, idx>>
  /\ TaskFrame

\* lines 348-356
TryNoCluster ==
  /\ pc = "tNoCluster"
  /\ \E t \in {NoTask, TaskIn(NoArn)} :
       /\ DescribeTasks("noCluster", NoArn, t)
       /\ IF t.present THEN ecsTask' = t ELSE UNCHANGED ecsTask
  /\ pc' = Unless(ecsTask', "enumList")
  /\ UNCHANGED <<ecsClusterArn, containerInstanceArn, list, idx>>
  /\ TaskFrame

\* ListClustersCommand({}) carries no nextToken: the answer is the first page of
\* the account's clusters
FirstPage(l) == SubSeq(l, 1, IF Len(l) < ClusterPage THEN Len(l) ELSE ClusterPage)

\* a listing whose error ends task resolution
ListClustersAbort(label, probe, after) ==
  \/ /\ Throws("ListClusters", label, NoArn)
     /\ pc' = "taskEnd"
     /\ UNCHANGED <<list, idx>>
  \/ /\ Issue("ListClusters", label, NoArn, Len(ecs.clusterArns) > 0)
     /\ list' = FirstPage(ecs.clusterArns)
     /\ idx' = 1
     /\ pc' = IF Len(ecs.clusterArns) = 0 THEN after ELSE probe
     /\ UNCHANGED threw

\* ecs.send(new ListClustersCommand({})): it throws (the catch block ends the
\* pass), or answers with the cluster ARNs; the loop then starts at the first
ListClusters(label, probe, after) ==
  \/ /\ Throws("ListClusters", label, NoArn)
     /\ pc' = after
     /\ UNCHANGED <<list, idx>>
  \/ /\ Issue("ListClusters", label, NoArn, Len(ecs.clusterArns) > 0)
     /\ list' = FirstPage(ecs.clusterArns)
     /\ idx' = 1
     /\ pc' = IF Len(ecs.clusterArns) = 0 THEN after ELSE probe
     /\ UNCHANGED threw

\* lines 358-362 and 376-378
EnumListClusters ==
  /\ pc = "enumList"
  /\ ListClusters("enumerate", "enumProbe", "sbList")
  /\ UNCHANGED <<ecsClusterArn, ecsTask, containerInstanceArn>>
  /\ TaskFrame

\* a loop that never ends
NextClusterRepeat(probe, after) == probe

\* the for loop goes on to the next cluster, or ends
NextCluster(probe, after) == IF idx + 1 > Len(list) THEN after ELSE probe

\* lines 362-375
EnumDescribeTasks ==
  /\ pc = "enumProbe"
  /\ \E t \in {NoTask, TaskIn(list[idx])} :
       /\ DescribeTasks("cluster", list[idx], t)
       /\ IF t.present
          THEN /\ ecsTask' = t
               /\ ecsClusterArn' = list[idx]
               /\ pc' = "taskEnd"
               /\ UNCHANGED idx
          ELSE /\ idx' = idx + 1
               /\ pc' = NextCluster("enumProbe", "sbList")
               /\ UNCHANGED <<ecsTask, ecsClusterArn>>
  /\ UNCHANGED <<containerInstanceArn, list>>
  /\ TaskFrame

\* lines 381-385 and 408-410
StartedByListClusters ==
  /\ pc = "sbList"
  /\ ListClusters("startedBy", "sbProbe", "taskEnd")
  /\ UNCHANGED <<ecsClusterArn, ecsTask, containerInstanceArn>>
  /\ TaskFrame

\* lines 386-394: ListTasks(cluster, startedBy = job id) lists the task in the
\* cluster that holds it
StartedByListTasks ==
  /\ pc = "sbProbe"
  /\ \/ /\ Throws("ListTasks", "startedBy", list[idx])
        /\ idx' = idx + 1
        /\ pc' = NextCluster("sbProbe", "taskEnd")
     \/ /\ Issue("ListTasks", "startedBy", list[idx], TaskIn(list[idx]).present)
        /\ IF TaskIn(list[idx]).present
           THEN pc' = "sbDescribe" /\ UNCHANGED idx
           ELSE pc' = NextCluster("sbProbe", "taskEnd") /\ idx' = idx + 1
        /\ UNCHANGED threw
  /\ UNCHANGED <<ecsClusterArn, ecsTask, containerInstanceArn, list>>
  /\ TaskFrame

\* lines 394-407: DescribeTasks of the tasks ListTasks returned
StartedByDescribeTasks ==
  /\ pc = "sbDescribe"
  /\ \E t \in {NoTask, TaskIn(list[idx])} :
       /\ DescribeTasks("startedBy", list[idx], t)
       /\ IF t.present
          THEN /\ ecsTask' = t
               /\ ecsClusterArn' = list[idx]
               /\ pc' = "taskEnd"
               /\ UNCHANGED idx
          ELSE /\ idx' = idx + 1
               /\ pc' = NextCluster("sbProbe", "taskEnd")
               /\ UNCHANGED <<ecsTask, ecsClusterArn>>
  /\ UNCHANGED <<containerInstanceArn, list>>
  /\ TaskFrame

\* lines 413-416
\* the same step stopping the task it resolved
TaskEndStoppingTask ==
  /\ pc = "taskEnd"
  /\ IF ecsTask.present
     THEN /\ ecsClusterArn' = Or(ecsTask.clusterArn, Or(ecsClusterArn, parsedClusterArn))
          /\ containerInstanceArn' = Or(ecsTask.containerInstanceArn, containerInstanceArn)
          /\ Issue("StopTask", "stop", ecsClusterArn', TRUE)
          /\ ecs' = [ecs EXCEPT !.holder = NoStr, !.task = NoTask]
     ELSE UNCHANGED <<ecsClusterArn, containerInstanceArn, calls, ecs>>
  /\ pc' = "ci"
  /\ UNCHANGED <<threw, ecsTask, list, idx>>
  /\ UNCHANGED <<runVars, cmdVars, batch, ec2, logs, faulty, opts, error, ceArn, hostVars, ceVars,
                 vpcVars, lastLogLines>>

TaskEnd ==
  /\ pc = "taskEnd"
  /\ IF ecsTask.present
     THEN /\ ecsClusterArn' = Or(ecsTask.clusterArn, Or(ecsClusterArn, parsedClusterArn))
          /\ containerInstanceArn' = Or(ecsTask.containerInstanceArn, containerInstanceArn)
     ELSE UNCHANGED <<ecsClusterArn, containerInstanceArn>>
  /\ pc' = "ci"
  /\ UNCHANGED <<calls, threw, ecsTask, list, idx>>
  /\ TaskFrame

\* ------------------------------- resolveJobChain: the host (lines 419-473)
HostFrame == UNCHANGED <<runVars, cmdVars, worldVars, error, taskVars, ceVars, vpcVars, lastLogLines>>

\* line 421
\* the gate without the platform test
HostGateAnyPlatform == containerInstanceArn # NoArn

\* the gate shut while tracing
HostGateUnlessDebug == containerInstanceArn # NoArn /\ ~isFargateJob /\ ~debugOn

HostGate == containerInstanceArn # NoArn /\ ~isFargateJob

\* lines 422-425
clusterForCi ==
  Or(ecsClusterArn, Or(clusterArnFromContainerInstanceArn(containerInstanceArn),
                       clusterFromContainerInstanceArn(containerInstanceArn)))

\* lines 419-439
DescribeContainerInstances ==
  /\ pc = "ci"
  /\ \/ /\ ~(HostGate /\ clusterForCi # NoArn)
        /\ UNCHANGED <<calls, threw, ec2InstanceId>>
     \/ /\ HostGate /\ clusterForCi # NoArn
        /\ \/ /\ Throws("DescribeContainerInstances", "ci", clusterForCi)
              /\ UNCHANGED ec2InstanceId
           \/ /\ Issue("DescribeContainerInstances", "ci", clusterForCi,
                       ecs.ciInstance # NoStr)
              /\ ec2InstanceId' = ecs.ciInstance
              /\ UNCHANGED threw
  /\ pc' = "eni"
  /\ UNCHANGED ec2Instance
  /\ HostFrame

\* line 442
\* the gate without the test of the instance id
EniGateAlways == Len(container.networkInterfaces) > 0

EniGate == ec2InstanceId = NoStr /\ Len(container.networkInterfaces) > 0

\* lines 443, 519: networkInterfaceId of the first interface
eniId == container.networkInterfaces[1]

\* lines 441-460
HostDescribeNetworkInterfaces ==
  /\ pc = "eni"
  /\ \/ /\ ~(EniGate /\ eniId # NoStr)
        /\ UNCHANGED <<calls, threw, ec2InstanceId>>
     \/ /\ EniGate /\ eniId # NoStr
        /\ \/ /\ Throws("DescribeNetworkInterfaces", "eniFallback", <<eniId>>)
              /\ UNCHANGED ec2InstanceId
           \/ /\ Issue("DescribeNetworkInterfaces", "eniFallback", <<eniId>>, ec2.eni.present)
              /\ ec2InstanceId' = OrS(ec2.eni.InstanceId, ec2InstanceId)
              /\ UNCHANGED threw
  /\ pc' = "inst"
  /\ UNCHANGED ec2Instance
  /\ HostFrame

\* lines 462-473
\* the same call outside any try/catch: its error ends the resolution
DescribeInstancesUncaught ==
  /\ pc = "inst"
  /\ \/ /\ ec2InstanceId = NoStr
        /\ pc' = "ce"
        /\ UNCHANGED <<calls, threw, ec2Instance, error>>
     \/ /\ ec2InstanceId # NoStr
        /\ \/ /\ Throws("DescribeInstances", "instance", NoArn)
              /\ pc' = "thrown"
              /\ error' = "DescribeInstances failed"
              /\ UNCHANGED ec2Instance
           \/ /\ Issue("DescribeInstances", "instance", NoArn, ec2.inst.present)
              /\ ec2Instance' = ec2.inst
              /\ pc' = "ce"
              /\ UNCHANGED <<threw, error>>
  /\ UNCHANGED <<runVars, cmdVars, worldVars, ec2InstanceId, taskVars, ceVars, vpcVars, lastLogLines>>

DescribeInstances ==
  /\ pc = "inst"
  /\ \/ /\ ec2InstanceId = NoStr
        /\ UNCHANGED <<calls, threw, ec2Instance>>
     \/ /\ ec2InstanceId # NoStr
        /\ \/ /\ Throws("DescribeInstances", "instance", NoArn)
              /\ UNCHANGED ec2Instance
           \/ /\ Issue("DescribeInstances", "instance", NoArn, ec2.inst.present)
              /\ ec2Instance' = ec2.inst
              /\ UNCHANGED threw
  /\ pc' = "ce"
  /\ UNCHANGED ec2InstanceId
  /\ HostFrame

\* ------------------ resolveJobChain: the compute environment (lines 475-509)
CeFrame == UNCHANGED <<runVars, cmdVars, worldVars, error, taskVars, hostVars, vpcVars, lastLogLines>>

\* lines 476-491
ResolveComputeEnvironment ==
  /\ pc = "ce"
  /\ \/ /\ job.computeEnvironment # NoStr
        /\ \/ /\ Throws("DescribeComputeEnvironments", "direct", NoArn)
              /\ computeEnvironmentArn' = job.computeEnvironment
              /\ UNCHANGED computeEnvironment
           \/ /\ Issue("DescribeComputeEnvironments", "direct", NoArn,
                       CeTable(job.computeEnvironment).present)
              /\ computeEnvironment' = CeTable(job.computeEnvironment)
              /\ computeEnvironmentArn' =
                   OrS(CeTable(job.computeEnvironment).computeEnvironmentArn,
                       job.computeEnvironment)
              /\ UNCHANGED threw
        /\ pc' = "vpcEni"
        /\ UNCHANGED ceArns
     \/ /\ job.computeEnvironment = NoStr /\ job.jobQueue # NoStr
        /\ \/ /\ Throws("DescribeJobQueues", "queue", NoArn)
              /\ pc' = "vpcEni"
              /\ UNCHANGED ceArns
           \/ /\ Issue("DescribeJobQueues", "queue", NoArn, Len(batch.ceOrder) > 0)
              /\ ceArns' = FilterNonEmpty(batch.ceOrder)
              /\ pc' = IF Len(ceArns') > 0 THEN "ceBatch" ELSE "vpcEni"
              /\ UNCHANGED threw
        /\ computeEnvironmentArn' = NoStr
        /\ UNCHANGED computeEnvironment
  /\ CeFrame

\* a selection that ignores the resolved cluster
chosenCeFirst(ces) == IF Len(ces) > 0 THEN ces[1] ELSE NoCe

\* a selection that falls back to the last compute environment
chosenCeLast(ces) ==
  LET match == IF ecsClusterArn # NoArn
               THEN FindFirst(ces, LAMBDA c : c.ecsClusterArn = ecsClusterArn, NoCe)
               ELSE NoCe
  IN IF match.present THEN match ELSE IF Len(ces) > 0 THEN ces[Len(ces)] ELSE NoCe

\* lines 496-500: the compute environment of the resolved cluster, else the first
chosenCe(ces) ==
  LET match == IF ecsClusterArn # NoArn
               THEN FindFirst(ces, LAMBDA c : c.ecsClusterArn = ecsClusterArn, NoCe)
               ELSE NoCe
  IN IF match.present THEN match ELSE IF Len(ces) > 0 THEN ces[1] ELSE NoCe

\* DescribeComputeEnvironments(arns): the records, in the order asked
DescribeCes(arns) == [i \in 1..Len(arns) |-> CeTable(arns[i])]

\* lines 492-505
DescribeQueueComputeEnvironments ==
  /\ pc = "ceBatch"
  /\ \/ /\ Throws("DescribeComputeEnvironments", "queue", NoArn)
        /\ UNCHANGED <<computeEnvironment, computeEnvironmentArn>>
     \/ /\ Issue("DescribeComputeEnvironments", "queue", NoArn, TRUE)
        /\ IF chosenCe(DescribeCes(ceArns)).present
           THEN /\ computeEnvironment' = chosenCe(DescribeCes(ceArns))
                /\ computeEnvironmentArn' =
                     chosenCe(DescribeCes(ceArns)).computeEnvironmentArn
           ELSE UNCHANGED <<computeEnvironment, computeEnvironmentArn>>
        /\ UNCHANGED threw
  /\ pc' = "vpcEni"
  /\ UNCHANGED ceArns
  /\ CeFrame

\* ------------------------------- resolveJobChain: the VPC (lines 511-578)
VpcFrame == UNCHANGED <<runVars, cmdVars, worldVars, error, taskVars, hostVars, ceVars, lastLogLines>>

\* lines 536-540: fall back to the compute environment's first subnet
WithCeSubnet(v, s) ==
  IF v = NoStr /\ s = NoStr /\ Len(computeEnvironment.subnets) > 0
  THEN computeEnvironment.subnets[1] ELSE s

\* line 518
\* the gate without the test of the instance's VPC
VpcEniGateAnyVpc == Len(container.networkInterfaces) > 0 /\ eniId # NoStr

VpcEniGate ==
  ec2Instance.VpcId = NoStr /\ Len(container.networkInterfaces) > 0 /\ eniId # NoStr

\* lines 514-540
VpcDescribeNetworkInterfaces ==
  /\ pc = "vpcEni"
  /\ \/ /\ ~VpcEniGate
        /\ vpcId' = ec2Instance.VpcId
        /\ subnetId' = WithCeSubnet(ec2Instance.VpcId, ec2Instance.SubnetId)
        /\ UNCHANGED <<calls, threw>>
     \/ /\ VpcEniGate
        /\ \/ /\ Throws("DescribeNetworkInterfaces", "forVpc", <<eniId>>)
              /\ vpcId' = ec2Instance.VpcId
              /\ subnetId' = WithCeSubnet(ec2Instance.VpcId, ec2Instance.SubnetId)
           \/ /\ Issue("DescribeNetworkInterfaces", "forVpc", <<eniId>>, ec2.eni.present)
              /\ vpcId' = OrS(ec2.eni.VpcId, ec2Instance.VpcId)
              /\ subnetId' = WithCeSubnet(OrS(ec2.eni.VpcId, ec2Instance.VpcId),
                                          OrS(ec2.eni.SubnetId, ec2Instance.SubnetId))
              /\ UNCHANGED threw
  /\ pc' = "vpcSubnet"
  /\ UNCHANGED vpc
  /\ VpcFrame

\* lines 542-551
\* the same call outside any try/catch: its error ends the resolution
DescribeSubnetsUncaught ==
  /\ pc = "vpcSubnet"
  /\ \/ /\ ~(vpcId = NoStr /\ subnetId # NoStr)
        /\ pc' = "vpcDescribe"
        /\ UNCHANGED <<calls, threw, vpcId, error>>
     \/ /\ vpcId = NoStr /\ subnetId # NoStr
        /\ \/ /\ Throws("DescribeSubnets", "subnet", NoArn)
              /\ pc' = "thrown"
              /\ error' = "DescribeSubnets failed"
              /\ UNCHANGED vpcId
           \/ /\ Issue("DescribeSubnets", "subnet", NoArn, ec2.subnetVpc # NoStr)
              /\ vpcId' = OrS(ec2.subnetVpc, vpcId)
              /\ pc' = "vpcDescribe"
              /\ UNCHANGED <<threw, error>>
  /\ UNCHANGED <<subnetId, vpc>>
  /\ UNCHANGED <<runVars, cmdVars, worldVars, taskVars, hostVars, ceVars, lastLogLines>>

DescribeSubnets ==
  /\ pc = "vpcSubnet"
  /\ \/ /\ ~(vpcId = NoStr /\ subnetId # NoStr)
        /\ UNCHANGED <<calls, threw, vpcId>>
     \/ /\ vpcId = NoStr /\ subnetId # NoStr
        /\ \/ /\ Throws("DescribeSubnets", "subnet", NoArn)
              /\ UNCHANGED vpcId
           \/ /\ Issue("DescribeSubnets", "subnet", NoArn, ec2.subnetVpc # NoStr)
              /\ vpcId' = OrS(ec2.subnetVpc, vpcId)
              /\ UNCHANGED threw
  /\ pc' = "vpcDescribe"
  /\ UNCHANGED <<subnetId, vpc>>
  /\ VpcFrame

\* lines 557-570: the chain's vpc record of the described VPC v with id `id`
VpcOf(id, v) ==
  [present |-> TRUE,
   vpcId |-> id,
   name |-> FindFirst(v.Tags, LAMBDA t : t.Key = "Name", [Key |-> NoStr, Value |-> NoStr]).Value,
   ipv6CidrBlock |-> FindFirst(v.Ipv6CidrBlockAssociationSet, LAMBDA a : a # NoStr, NoStr)]

\* lines 553-575
DescribeVpcs ==
  /\ pc = "vpcDescribe"
  /\ \/ /\ vpcId = NoStr
        /\ UNCHANGED <<calls, threw, vpc>>
     \/ /\ vpcId # NoStr
        /\ \/ /\ Throws("DescribeVpcs", "vpc", NoArn)
              /\ UNCHANGED vpc
           \/ /\ Issue("DescribeVpcs", "vpc", NoArn, ec2.vpcRec.present)
              /\ vpc' = IF ec2.vpcRec.present THEN VpcOf(vpcId, ec2.vpcRec) ELSE vpc
              /\ UNCHANGED threw
  /\ pc' = "logs"
  /\ UNCHANGED <<vpcId, subnetId>>
  /\ VpcFrame

\* ------------------------------ resolveJobChain: the logs (lines 580-599)
\* line 229: Math.max(1, Number(opts?.logLines ?? 50)); -1 stands for "not given"
DefaultLogLines == 50
logLines == IF opts.logLines = -1 THEN DefaultLogLines
            ELSE IF opts.logLines < 1 THEN 1 ELSE opts.logLines

\* GetLogEvents(limit, startFromHead: false): the newest `limit` events
GetLogEvents(stream, limit) == SliceLast(stream, limit)

\* lines 592-595
LastLines(events, n) ==
  FilterNonEmpty([i \in 1..Len(SliceLast(events, n)) |-> Trim(SliceLast(events, n)[i])])

\* line 582
\* the gate that lets every job through
LogsGateOpen == TRUE

LogsGate == logStreamName # NoStr

\* lines 580-599
FetchLogs ==
  /\ pc = "logs"
  /\ \/ /\ ~LogsGate
        /\ UNCHANGED <<calls, threw, lastLogLines>>
     \/ /\ LogsGate
        /\ \/ /\ Throws("GetLogEvents", "logs", NoArn)
              /\ UNCHANGED lastLogLines
           \/ /\ Issue("GetLogEvents", "logs", NoArn, Len(logs.stream) > 0)
              /\ lastLogLines' =
                   [present |-> TRUE,
                    lines |-> LastLines(GetLogEvents(logs.stream, logLines), logLines)]
              /\ UNCHANGED threw
  /\ pc' = "done"
  /\ UNCHANGED <<runVars, cmdVars, worldVars, error, taskVars, hostVars, ceVars, vpcVars>>

\* lines 601-618: the job chain resolveJobChain returns
JobChain ==
  [job |-> job, container |-> container, ecsClusterArn |-> ecsClusterArn,
   taskArn |-> taskArn, containerInstanceArn |-> containerInstanceArn,
   computeEnvironmentArn |-> computeEnvironmentArn,
   computeEnvironment |-> computeEnvironment, logStreamName |-> logStreamName,
   image |-> image, command |-> command, environment |-> environment,
   ecsTask |-> ecsTask, ec2InstanceId |-> ec2InstanceId,
   ec2Instance |-> ec2Instance, lastLogLines |-> lastLogLines, vpc |-> vpc]

Returned == pc = "done"
Thrown == pc = "thrown"

Next ==
  \/ DescribeJobs
  \/ HintDescribeJobQueues
  \/ HintDescribeComputeEnvironments
  \/ TryParsedArn
  \/ TryHinted
  \/ TryParsedName
  \/ TryNoCluster
  \/ EnumListClusters
  \/ EnumDescribeTasks
  \/ StartedByListClusters
  \/ StartedByListTasks
  \/ StartedByDescribeTasks
  \/ TaskEnd
  \/ DescribeContainerInstances
  \/ HostDescribeNetworkInterfaces
  \/ DescribeInstances
  \/ ResolveComputeEnvironment
  \/ DescribeQueueComputeEnvironments
  \/ VpcDescribeNetworkInterfaces
  \/ DescribeSubnets
  \/ DescribeVpcs
  \/ FetchLogs

\* ------------------------------------------------------------------ Init
\* resolveJobChain is about to run: nothing is resolved yet.
Start ==
  /\ pc = "start"
  /\ error = NoStr
  /\ calls = <<>>
  /\ threw = FALSE
  /\ ecsClusterArn = NoArn
  /\ ecsTask = NoTask
  /\ containerInstanceArn = NoArn
  /\ ceArn = NoStr
  /\ list = <<>>
  /\ idx = 0
  /\ ec2InstanceId = NoStr
  /\ ec2Instance = NoInstance
  /\ computeEnvironmentArn = NoStr
  /\ computeEnvironment = NoCe
  /\ ceArns = <<>>
  /\ vpcId = NoStr
  /\ subnetId = NoStr
  /\ vpc = NoVpc
  /\ lastLogLines = NoLines

\* The states of the orchestrator: the holder of the task, the task's record in
\* it, the clusters listed, the instance bound to the container instance.
EcsStates(holders, lists, instances) ==
  { [holder |-> h, task |-> t, clusterArns |-> l, ciInstance |-> i] :
      h \in holders, t \in TaskRecords("c1") \cup TaskRecords("c2") \cup TaskRecords("c3")
                            \cup TaskRecords("default") \cup {NoTask},
      l \in lists, i \in instances }

\* the task's record is the holder's; without a holder there is no record
EcsOk(e) == IF e.holder = NoStr THEN e.task = NoTask ELSE e.task \in TaskRecords(e.holder)

RichEc2 ==
  [eni |-> [present |-> TRUE, InstanceId |-> "i-2", VpcId |-> "vpc-2", SubnetId |-> "sub-2"],
   inst |-> [present |-> TRUE, VpcId |-> "vpc-1", SubnetId |-> "sub-1"],
   subnetVpc |-> "vpc-3",
   vpcRec |-> [present |-> TRUE,
               Tags |-> <<[Key |-> "env", Value |-> "prod"], [Key |-> "Name", Value |-> "main"]>>,
               Ipv6CidrBlockAssociationSet |-> <<NoStr, "fd00::/56">>]]
EmptyEc2 == [eni |-> NoEni, inst |-> NoInstance, subnetVpc |-> NoStr, vpcRec |-> NoVpcRecord]
RichLogs == [stream |-> <<"a", " ", "b ">>]

\* Jobs that differ in where the task ARN is and what it looks like.
TaskJobs ==
  {NoJob} \cup
  { Job(<<"EC2">>, <<[container |-> Container(t, NoArn, <<>>, NoStr, "img-a")]>>,
        Container(NoArn, NoArn, <<>>, NoStr, "img-j"), NoStr) :
      t \in {NoArn, TaskArnLong, TaskArnShort} } \cup
  { Job(<<"EC2">>, <<>>, Container(TaskArnLong, NoArn, <<>>, NoStr, "img-j"), NoStr),
    Job(<<"EC2">>, <<EarlierAttempt, [container |-> NoContainer]>>,
        Container(TaskArnShort, NoArn, <<>>, NoStr, "img-j"), NoStr) }

\* Task resolution: every holder, task record, cluster list and queue order;
\* the orchestrator's task operations may throw.  A task whose ARN names its
\* cluster is in that cluster or gone; one with a short ARN may be anywhere.
InitTask ==
  /\ batch \in [job : TaskJobs, ceOrder : QueueOrders]
  /\ ecs \in {e \in EcsStates(Holders, ClusterLists, {"i-1"}) :
                EcsOk(e) /\ (taskArn = TaskArnLong => e.holder \in {NoStr, "c1"})}
  /\ ec2 = RichEc2
  /\ logs = RichLogs
  /\ opts = [logLines |-> -1]
  /\ faulty \in {{}, TaskOps}

\* Jobs that differ in platform, container-instance reference and interfaces.
HostJobs ==
  { Job(p, <<[container |-> Container(t, ci, enis, NoStr, "img-a")]>>,
        Container(NoArn, NoArn, <<"eni-3">>, NoStr, "img-j"), NoStr) :
      p \in {<<>>, <<"EC2">>, <<"FARGATE">>, <<"EC2", "FARGATE">>},
      t \in {NoArn, TaskArnLong},
      ci \in {NoArn, CiArnJob, CiArnShort},
      enis \in {<<>>, <<"eni-1", "eni-2">>} } \cup
  { Job(p, <<>>, Container(NoArn, CiArnJob, <<"eni-3">>, "ls-j", "img-j"), "ceA") :
      p \in {<<"EC2">>, <<"FARGATE">>} }

\* Host resolution: every interface and instance record; the host operations
\* may throw.
InitHost ==
  /\ batch \in [job : HostJobs, ceOrder : {<<"ceA", "ceB">>}]
  /\ ecs \in {e \in EcsStates({NoStr, "c1"}, {<<ArnOf("c1")>>}, {NoStr, "i-1"}) :
                EcsOk(e) /\ (e.task.present => e.task.clusterArn # NoArn)}
  /\ ec2 \in [eni : {NoEni} \cup EniRecords, inst : {NoInstance} \cup InstanceRecords,
              subnetVpc : {"vpc-3"}, vpcRec : {RichEc2.vpcRec}]
  /\ logs = RichLogs
  /\ opts = [logLines |-> -1]
  /\ faulty \in {{}, HostOps}

\* Jobs with everything on them.
FullJobs ==
  { Job(p, <<EarlierAttempt,
             [container |-> Container(TaskArnLong, CiArnJob, <<"eni-1">>, "ls-a", "img-a")]>>,
        Container(NoArn, NoArn, <<>>, "ls-j", "img-j"), ce) :
      p \in {<<"EC2">>, <<"FARGATE">>}, ce \in {NoStr, "ceA", "ceZ"} }

\* Everything may throw, in a world where everything or nothing can be found.
InitStorm ==
  /\ batch \in [job : FullJobs, ceOrder : {<<>>, <<"ceB", "ceA">>}]
  /\ ecs \in {e \in EcsStates({NoStr, "c1"}, {<<ArnOf("c2"), ArnOf("c1")>>}, {"i-1"}) :
                EcsOk(e) /\ (e.task.present =>
                               e.task.clusterArn # NoArn /\ e.task.containerInstanceArn # NoArn)}
  /\ ec2 \in {RichEc2, EmptyEc2}
  /\ logs \in {RichLogs, [stream |-> <<>>]}
  /\ opts = [logLines |-> 2]
  /\ faulty = Ops

\* the logs command is not run
CmdOff ==
  /\ cmd = [stream |-> NoStr, follow |-> FALSE, fromStart |-> FALSE, logLines |-> -1]
  /\ lpc = "off"
  /\ streamName = NoStr
  /\ nextToken = -1
  /\ initialized = FALSE
  /\ emitted = <<>>
  /\ batches = 0
  /\ printed = <<>>
  /\ exitCode = 0

\* no earlier run, and BATCHI_DEBUG unset
NoPrior == [done |-> FALSE, env |-> [BATCHI_DEBUG |-> NoStr], calls |-> <<>>,
            chain |-> [job |-> NoJob], error |-> NoStr, hint |-> NoArn, threw |-> FALSE]
RunOnce ==
  /\ env = [BATCHI_DEBUG |-> NoStr]
  /\ prior = NoPrior

Init == Start /\ CmdOff /\ RunOnce /\ (InitTask \/ InitHost \/ InitStorm)

Spec == Init /\ [][Next]_vars

\* ============================================ the logs command (part_003)
\* Bounds of the log service: events on one page, events the stream grows to.
PageSize == 2
MaxEvents == 4

\* part_003 line 23: Math.max(1, Number(opts.logLines || 50))
CmdDefaultLines == 50
lines == IF cmd.logLines = -1 \/ cmd.logLines = 0 THEN CmdDefaultLines
         ELSE IF cmd.logLines < 1 THEN 1 ELSE cmd.logLines

\* part_003 line 65: above this many lines the single fetch reads from the head
HeadThreshold == 5000

\* The log service's GetLogEvents without a limit: a page of at most PageSize
\* events, given as positions in the stream, and the forward token, which is
\* the position after the last event of the page.  With a token the page starts
\* after it; without one it is the first page (startFromHead) or the last.
PageAfter(s, from) ==
  LET to == IF from + PageSize < Len(s) THEN from + PageSize ELSE Len(s)
  IN [events |-> [i \in 1..(to - from) |-> from + i], nextForwardToken |-> to]

GetLogEventsPage(s, startFromHead, token) ==
  IF token # -1 THEN PageAfter(s, token)
  ELSE IF startFromHead THEN PageAfter(s, 0)
  ELSE PageAfter(s, IF Len(s) > PageSize THEN Len(s) - PageSize ELSE 0)

\* lines 69-71 and 98-100: the events whose trimmed message is not empty
NonEmptyEvents(s, events) == SelectSeq(events, LAMBDA e : Trim(s[e]) # NoStr)

\* the messages of the events, trimmed
Messages(s, events) == [i \in 1..Len(events) |-> Trim(s[events[i]])]

CmdFrame ==
  UNCHANGED <<pc, error, calls, threw, taskVars, hostVars, ceVars, vpcVars, lastLogLines,
              batch, ecs, ec2, faulty, opts, cmd, runVars>>

\* lines 109-112: catch (err) of the action
Fails ==
  /\ lpc' = "failed"
  /\ exitCode' = 1

\* lines 28-56: the stream is the one given, else the one of the job's chain
\* (resolveJobChain returns logStreamName of part_004:258 or throws, line 234)
LogsBegin ==
  /\ lpc = "begin"
  /\ \/ /\ cmd.stream = NoStr /\ ~job.present
        /\ Fails
        /\ UNCHANGED streamName
     \/ /\ cmd.stream # NoStr \/ job.present
        /\ streamName' = IF cmd.stream # NoStr THEN cmd.stream ELSE logStreamName
        /\ lpc' = IF streamName' = NoStr THEN "noLogs"
                  ELSE IF cmd.follow THEN "poll" ELSE "fetch"
        /\ UNCHANGED exitCode
  /\ UNCHANGED <<logs, nextToken, initialized, emitted, batches, printed>>
  /\ CmdFrame

\* lines 59-81: the single fetch
FetchOnce ==
  /\ lpc = "fetch"
  /\ \/ /\ "GetLogEvents" \in faulty
        /\ Fails
        /\ UNCHANGED printed
     \/ /\ LET r == GetLogEventsPage(logs.stream, lines > HeadThreshold, -1)
               events == Messages(logs.stream, NonEmptyEvents(logs.stream, r.events))
           IN printed' = SliceLast(events, lines)
        /\ lpc' = "ended"
        /\ UNCHANGED exitCode
  /\ UNCHANGED <<logs, streamName, nextToken, initialized, emitted, batches>>
  /\ CmdFrame

\* a request that carries the token only before the first page, that is never
RequestTokenNone == IF ~initialized /\ nextToken # -1 THEN nextToken ELSE -1

\* line 93: the token sent with the request
RequestToken == IF initialized /\ nextToken # -1 THEN nextToken ELSE -1

\* lines 87-106: one iteration of the follow loop up to the timer
Poll ==
  /\ lpc = "poll"
  /\ \/ /\ "GetLogEvents" \in faulty
        /\ Fails
        /\ UNCHANGED <<nextToken, initialized, emitted, batches>>
     \/ /\ LET r == GetLogEventsPage(logs.stream, cmd.fromStart, RequestToken)
               events == NonEmptyEvents(logs.stream, r.events)
           IN /\ initialized' = TRUE
              /\ batches' = IF Len(events) > 0 THEN batches + 1 ELSE batches
              /\ emitted' = emitted \o [i \in 1..Len(events) |->
                                          [event |-> events[i], batch |-> batches']]
              /\ nextToken' = IF r.nextForwardToken # nextToken
                              THEN r.nextForwardToken ELSE nextToken
        /\ lpc' = "sleep"
        /\ UNCHANGED exitCode
  /\ UNCHANGED <<logs, streamName, printed>>
  /\ CmdFrame

\* line 107: the timer of 1500 ms
Sleep ==
  /\ lpc = "sleep"
  /\ lpc' = "poll"
  /\ UNCHANGED <<logs, streamName, nextToken, initialized, emitted, batches, printed, exitCode>>
  /\ CmdFrame

\* the job writes another event to the stream while it is followed
Produce ==
  /\ lpc \in {"poll", "sleep"}
  /\ Len(logs.stream) < MaxEvents
  /\ \E m \in {"a", " "} : logs' = [stream |-> Append(logs.stream, m)]
  /\ UNCHANGED <<lpc, streamName, nextToken, initialized, emitted, batches, printed, exitCode>>
  /\ CmdFrame

NextLogs ==
  \/ LogsBegin
  \/ FetchOnce
  \/ Poll
  \/ Sleep
  \/ Produce

\* The command's options (without --since) and the jobs it is run on.
CmdOptions ==
  [stream : {NoStr, "ls-x"}, follow : BOOLEAN, fromStart : BOOLEAN,
   logLines : {-1, 0, 1, 2, 5001}]

LogsJobs ==
  { NoJob,
    Job(<<"EC2">>, <<>>, Container(NoArn, NoArn, <<>>, NoStr, "img-j"), NoStr),
    Job(<<"EC2">>, <<[container |-> Container(NoArn, NoArn, <<>>, "ls-a", "img-a")]>>,
        Container(NoArn, NoArn, <<>>, "ls-j", "img-j"), NoStr) }

InitLogs ==
  /\ Start
  /\ batch \in [job : LogsJobs, ceOrder : {<<>>}]
  /\ ecs = [holder |-> NoStr, task |-> NoTask, clusterArns |-> <<>>, ciInstance |-> NoStr]
  /\ ec2 = EmptyEc2
  /\ logs \in [stream : LogStreams]
  /\ opts = [logLines |-> -1]
  /\ faulty \in {{}, {"GetLogEvents"}}
  /\ cmd \in CmdOptions
  /\ RunOnce
  /\ lpc = "begin"
  /\ streamName = NoStr
  /\ nextToken = -1
  /\ initialized = FALSE
  /\ emitted = <<>>
  /\ batches = 0
  /\ printed = <<>>
  /\ exitCode = 0

SpecLogs == InitLogs /\ [][NextLogs]_vars

\* the fetch and the timer of the loop are awaited: each completes
FairSpecLogs == SpecLogs /\ WF_vars(Poll) /\ WF_vars(Sleep)

\* ---------------- the logs command with the resolution it awaits (28-56)
\* lines 32-36: await resolveJobChain(..., { logGroup, logLines: lines }), the
\* steps of the resolution the command waits for when no stream was given
CmdResolve ==
  /\ lpc = "begin"
  /\ cmd.stream = NoStr
  /\ Next

\* lines 37-56: the resolution has returned or thrown, or was not needed
CmdBegin ==
  /\ cmd.stream # NoStr \/ Returned \/ Thrown
  /\ LogsBegin

NextCmd ==
  \/ CmdResolve
  \/ CmdBegin
  \/ FetchOnce
  \/ Poll
  \/ Sleep
  \/ Produce

\* The jobs the command is run on: with and without a log stream, with and
\* without a task.
CmdJobs ==
  LogsJobs \cup
  { Job(<<"EC2">>, <<[container |-> Container(TaskArnLong, CiArnJob, <<"eni-1">>, NoStr, "img-a")]>>,
        Container(NoArn, NoArn, <<>>, NoStr, "img-j"), NoStr) }

InitCmd ==
  /\ Start
  /\ batch \in [job : CmdJobs, ceOrder : {<<>>, <<"ceB", "ceA">>}]
  /\ ecs = [holder |-> "c1",
            task |-> [present |-> TRUE, clusterArn |-> ArnOf("c1"),
                      containerInstanceArn |-> CiArnTask],
            clusterArns |-> <<ArnOf("c1")>>, ciInstance |-> "i-1"]
  /\ ec2 = RichEc2
  /\ logs \in [stream : LogStreams]
  /\ faulty \in {{}, {"GetLogEvents"}}
  /\ cmd \in CmdOptions
  /\ RunOnce
  /\ opts = [logLines |-> lines]
  /\ lpc = "begin"
  /\ streamName = NoStr
  /\ nextToken = -1
  /\ initialized = FALSE
  /\ emitted = <<>>
  /\ batches = 0
  /\ printed = <<>>
  /\ exitCode = 0

SpecCmd == InitCmd /\ [][NextCmd]_vars

\* ================================================================ claims
\* positions of the calls of the given operations
CallsOf(ops) == {i \in 1..Len(calls) : calls[i].op \in ops}

\* the task block (lines 301-417) is over
TaskPhaseOver ==
  pc \in {"ci", "eni", "inst", "ce", "ceBatch", "vpcEni", "vpcSubnet", "vpcDescribe",
          "logs", "done"}

\* the cluster hint obtained from the queue's compute environment (lines 274-294)
HintObtained ==
  IF \E i \in CallsOf({"DescribeComputeEnvironments"}) :
       calls[i].label = "hint" /\ calls[i].ok
  THEN CeTable(ceArn).ecsClusterArn ELSE NoArn

\* C1: when the scheduler has no record of the job, resolveJobChain throws
\* 'Job not found' and the DescribeJobs call is the only call it ever issues.
C1_JobNotFound ==
  (~job.present /\ pc # "start") =>
     /\ Thrown
     /\ error = "Job not found"
     /\ Len(calls) = 1
     /\ calls[1].op = "DescribeJobs"

C1_Witness == ~job.present /\ Thrown /\ batch.ceOrder # <<>> /\ ecs.holder # NoStr

\* C2: when the job's record exists, no failure of a later call (a thrown error
\* or an empty answer) aborts the resolution: it never throws, and the chain it
\* returns holds the job.
C2_NeverAborts ==
  job.present =>
     /\ ~Thrown
     /\ error = NoStr
     /\ (Returned => JobChain.job = batch.job /\ JobChain.job.present)

\* a resolution that returned although calls threw and nothing at all was found
C2_Witness ==
  /\ Returned /\ job.present /\ threw /\ faulty = Ops
  /\ taskArn # NoArn /\ ~ecsTask.present
  /\ ec2InstanceId = NoStr /\ ~computeEnvironment.present /\ ~vpc.present
  /\ ~lastLogLines.present
  /\ Cardinality({i \in 1..Len(calls) : ~calls[i].ok}) >= 8

\* the identifier a lookup was issued with names the cluster of the given ARN:
\* it is that ARN, or the cluster name the ARN ends with
NamesCluster(id, arn) ==
  \/ id = arn
  \/ id # NoArn /\ arn # NoArn /\ id = <<arn[Len(arn)]>>

\* C3: a task in the result comes with a cluster that a successful DescribeTasks
\* of this resolution vouches for: the task record's own clusterArn or the
\* cluster identifier of a call that returned the task.
C3_ClusterVerified ==
  (Returned /\ ecsTask.present) =>
     \/ ecsClusterArn = ecsTask.clusterArn /\ ecsTask.clusterArn # NoArn
     \/ \E i \in CallsOf({"DescribeTasks"}) :
           calls[i].ok /\ NamesCluster(calls[i].cluster, ecsClusterArn)

\* C4: without a task ARN no task lookup is issued and the result has neither a
\* task nor a cluster ARN.
C4_NoTaskArn ==
  (job.present /\ taskArn = NoArn) =>
     /\ CallsOf(TaskOps) = {}
     /\ (Returned => ~JobChain.ecsTask.present /\ JobChain.ecsClusterArn = NoArn)

\* rank of a task lookup in the order of section 4.2, by the label of its call site
Rank(c) ==
  CASE c.label = "hintedClusterArn" -> 1
    [] c.label = "parsedClusterArn" -> 2
    [] c.label = "parsedCluster" -> 3
    [] c.label = "noCluster" -> 4
    [] c.label = "enumerate" -> 5
    [] c.label = "cluster" -> 5
    [] OTHER -> 6

\* C5: the lookups are issued in the order hinted cluster, reconstructed cluster
\* ARN, parsed cluster name, no cluster, exhaustive scan, started-by scan; a scan
\* starts only after every earlier lookup yielded no task.
C5_CandidateOrder ==
  \A i, j \in CallsOf(TaskOps) :
     i < j =>
        /\ Rank(calls[i]) <= Rank(calls[j])
        /\ (calls[j].op = "ListClusters" =>
              ~(calls[i].op = "DescribeTasks" /\ calls[i].ok))

\* C6: once a DescribeTasks has returned a task, no further task lookup is
\* issued, and the task in the result is the one that call returned.
C6_FirstSuccessWins ==
  /\ \A i, j \in CallsOf(TaskOps) :
        (i < j /\ calls[i].op = "DescribeTasks") => ~calls[i].ok
  /\ (Returned /\ (\E i \in CallsOf({"DescribeTasks"}) : calls[i].ok)) => ecsTask = ecs.task

\* C7: when the hint from the queue's compute environment is the cluster that
\* holds the task (and DescribeTasks does not fail), task resolution issues
\* exactly one DescribeTasks and no ListClusters or ListTasks.
C7_HintFirst ==
  (/\ job.present /\ taskArn # NoArn /\ TaskPhaseOver
   /\ "DescribeTasks" \notin faulty
   /\ HintObtained # NoArn /\ ecs.holder # NoStr /\ HintObtained = ArnOf(ecs.holder)) =>
     /\ Cardinality(CallsOf({"DescribeTasks"})) = 1
     /\ CallsOf({"ListClusters", "ListTasks"}) = {}
     /\ ecsTask.present

\* C8: for the task ARN arn:aws:ecs:r1:a1:task/c1/t1 whose task is in c1, a
\* DescribeTasks against c1 (as reconstructed ARN or as bare name) is issued and
\* no ListClusters ever; the task is returned unless DescribeTasks itself fails.
C8_ParsedCluster ==
  (job.present /\ taskArn = TaskArnLong /\ ecs.holder = "c1") =>
     /\ TaskPhaseOver =>
          \E i \in CallsOf({"DescribeTasks"}) : calls[i].cluster \in {ArnOf("c1"), <<"c1">>}
     /\ "DescribeTasks" \notin faulty =>
          /\ CallsOf({"ListClusters"}) = {}
          /\ TaskPhaseOver => ecsTask = ecs.task /\ ecsTask.present
     /\ (\E i \in CallsOf({"DescribeTasks"}) :
            calls[i].ok /\ calls[i].label \in {"parsedClusterArn", "parsedCluster"})
          => CallsOf({"ListClusters"}) = {}

\* the task was found in the parsed cluster although the queue hints elsewhere
C8_Witness ==
  /\ Returned /\ taskArn = TaskArnLong /\ ecs.holder = "c1"
  /\ ecsTask.present /\ HintObtained = ArnOf("c2")
  /\ calls[CHOOSE i \in CallsOf({"DescribeTasks"}) :
             \A k \in CallsOf({"DescribeTasks"}) : i <= k].ok

\* C9: a job whose platform capabilities include FARGATE never gets a
\* DescribeContainerInstances call, whatever container-instance references exist.
C9_FargateNoContainerInstance ==
  isFargateJob => CallsOf({"DescribeContainerInstances"}) = {}

\* a Fargate job returned whose container and resolved task both carry a
\* container-instance reference
C9_Witness ==
  /\ Returned /\ isFargateJob
  /\ attemptContainer.containerInstanceArn # NoArn
  /\ ecsTask.present /\ ecsTask.containerInstanceArn # NoArn
  /\ containerInstanceArn = ecsTask.containerInstanceArn

\* C10: for a Fargate job no host-resolution call is issued at all (container
\* instance, network interface for the instance id, instance) and the chain has
\* neither an instance id nor an instance record.
C10_FargateNoHost ==
  isFargateJob =>
     /\ CallsOf({"DescribeContainerInstances", "DescribeInstances"}) = {}
     /\ \A i \in CallsOf({"DescribeNetworkInterfaces"}) : calls[i].label # "eniFallback"
     /\ (Returned => JobChain.ec2InstanceId = NoStr /\ ~JobChain.ec2Instance.present)

\* String.prototype.trim on every message
TrimAll(s) == [i \in 1..Len(s) |-> Trim(s[i])]

\* the last min(n, k) of the k non-empty trimmed lines of the stream s
TailOfStream(s, n) == SliceLast(FilterNonEmpty(TrimAll(s)), n)

\* the VPC id of lines 514-551 has been derived
VpcIdDerived == pc \in {"vpcDescribe", "logs", "done"}

\* C11: the VPC id comes from the first source that has one, in the order
\* instance, network interface, compute environment's first subnet: with a VPC
\* id on the resolved instance the chain's VPC is that one and neither the
\* network interface nor a subnet is described for it; with none on the
\* instance and one on the described interface, that one is taken and no subnet
\* is described.
C11_VpcCascade ==
  /\ (ec2Instance.present /\ ec2Instance.VpcId # NoStr) =>
        /\ \A i \in CallsOf({"DescribeNetworkInterfaces"}) : calls[i].label # "forVpc"
        /\ CallsOf({"DescribeSubnets"}) = {}
        /\ (VpcIdDerived => vpcId = ec2Instance.VpcId)
        /\ (vpc.present => vpc.vpcId = ec2Instance.VpcId)
  /\ (/\ ec2Instance.VpcId = NoStr /\ ec2.eni.VpcId # NoStr
      /\ \E i \in CallsOf({"DescribeNetworkInterfaces"}) :
            calls[i].label = "forVpc" /\ calls[i].ok) =>
        /\ CallsOf({"DescribeSubnets"}) = {}
        /\ (VpcIdDerived => vpcId = ec2.eni.VpcId)
        /\ (vpc.present => vpc.vpcId = ec2.eni.VpcId)

\* all three sources had a VPC to offer and the instance's was taken
C11_Witness ==
  /\ Returned /\ ec2Instance.present /\ ec2Instance.VpcId # NoStr
  /\ Len(container.networkInterfaces) > 0 /\ ec2.eni.VpcId # NoStr
  /\ computeEnvironment.present /\ Len(computeEnvironment.subnets) > 0
  /\ vpc.present /\ vpc.vpcId = ec2Instance.VpcId
  /\ ec2Instance.VpcId # ec2.eni.VpcId

\* the steps of the network derivation (lines 511-578)
InVpcBlock == pc \in {"vpcEni", "vpcSubnet", "vpcDescribe"}

\* the fields of the returned chain other than vpc
ChainButVpc == [f \in DOMAIN JobChain \ {"vpc"} |-> JobChain[f]]

\* C12: whatever the calls of the network derivation do (throw or return
\* nothing), the resolution goes on to the logs, no other field of the chain
\* changes, and a chain without a successfully described VPC has no vpc field.
C12_VpcFailureAbsorbed ==
  /\ [][InVpcBlock =>
          /\ pc' \in {"vpcSubnet", "vpcDescribe", "logs"}
          /\ error' = error
          /\ ChainButVpc' = ChainButVpc]_vars
  /\ []((~\E i \in CallsOf({"DescribeVpcs"}) : calls[i].ok) => ~vpc.present)
  /\ []((job.present /\ ~InVpcBlock /\ pc # "logs" /\ ~Returned) => ~vpc.present)

\* a chain returned without vpc after the interface and a later call of the
\* derivation failed, with everything else resolved
C12_Witness ==
  /\ Returned /\ ~vpc.present
  /\ \E i \in CallsOf({"DescribeNetworkInterfaces"}) : calls[i].label = "forVpc" /\ ~calls[i].ok
  /\ \E i \in CallsOf({"DescribeSubnets", "DescribeVpcs"}) : ~calls[i].ok
  /\ computeEnvironment.present /\ lastLogLines.present /\ ecsTask.present

\* the queue's compute environments were described (lines 492-495 returned)
QueueCeDescribed ==
  \E i \in CallsOf({"DescribeComputeEnvironments"}) : calls[i].label = "queue" /\ calls[i].ok

\* positions in the queue's order of the compute environments of the resolved cluster
MatchingCes ==
  {k \in 1..Len(batch.ceOrder) : CeTable(batch.ceOrder[k]).ecsClusterArn = ecsClusterArn}

\* C13: without a direct reference, among several compute environments of the
\* queue the one whose ecsClusterArn equals the resolved cluster ARN is
\* selected, at whatever position of the order it is.
C13_MatchingCeSelected ==
  (QueueCeDescribed /\ Len(batch.ceOrder) >= 2 /\ ecsClusterArn # NoArn /\ MatchingCes # {}) =>
     /\ computeEnvironment.present
     /\ computeEnvironment.ecsClusterArn = ecsClusterArn
     /\ \E k \in MatchingCes :
           /\ \A m \in MatchingCes : k <= m
           /\ computeEnvironmentArn = batch.ceOrder[k]
           /\ computeEnvironment = CeTable(batch.ceOrder[k])

\* the compute environment of the task's own cluster was selected although it
\* is second in the queue's order
C13_Witness ==
  /\ Returned /\ QueueCeDescribed /\ Len(batch.ceOrder) >= 2
  /\ ecsTask.present /\ ecsTask.clusterArn = ecsClusterArn /\ ecsClusterArn # NoArn
  /\ computeEnvironmentArn = batch.ceOrder[2]
  /\ CeTable(batch.ceOrder[1]).ecsClusterArn # ecsClusterArn

C15_LastLines ==
  (Returned /\ lastLogLines.present) =>
     lastLogLines.lines = TailOfStream(logs.stream, logLines)

\* C16: in follow mode no event is written twice: an event written in one
\* iteration of the loop is not written again, in that iteration or a later one.
C16_NoRepeat ==
  \A i, j \in 1..Len(emitted) : i < j => emitted[i].event # emitted[j].event

\* events written in two iterations, the later ones fetched with the token
C16_Witness ==
  /\ Len(emitted) >= 3 /\ nextToken # -1 /\ initialized
  /\ \E i, j \in 1..Len(emitted) : emitted[i].batch # emitted[j].batch
  /\ \E k \in 1..Len(logs.stream) : Trim(logs.stream[k]) = NoStr

\* C17: once the follow loop fetches pages it fetches pages for ever: every
\* fetch is followed by another one, whatever became of it.
C17_FollowsForever == [](lpc = "poll" => []<>(lpc = "poll"))

\* the lookups of the fixed candidate list, of the exhaustive pass and the
\* calls of the heuristic pass
CandidateCalls ==
  {i \in CallsOf({"DescribeTasks"}) :
     calls[i].label \in {"parsedClusterArn", "hintedClusterArn", "parsedCluster", "noCluster"}}
ExhaustiveCalls == {i \in CallsOf({"DescribeTasks"}) : calls[i].label = "cluster"}
HeuristicCalls == {i \in CallsOf({"ListTasks", "DescribeTasks"}) : calls[i].label = "startedBy"}

\* a pass over the listed clusters is under way
Probing == pc \in {"enumProbe", "sbProbe", "sbDescribe"}

\* C18 as stated: at most one lookup per candidate of the fixed list, at most
\* one lookup per listed cluster in the exhaustive pass and at most one call per
\* listed cluster in the heuristic pass (the two cluster listings not counted).
C18_OneCallPerCluster ==
  /\ Cardinality(CandidateCalls) <= 4
  /\ \A i, j \in CandidateCalls : calls[i].label = calls[j].label => i = j
  /\ Cardinality(CallsOf({"ListClusters"})) <= 2
  /\ Cardinality(ExhaustiveCalls) <= Len(ecs.clusterArns)
  /\ Cardinality(HeuristicCalls) <= Len(ecs.clusterArns)

\* C18, amended: task resolution terminates, each step of a pass ending it or
\* moving on to the next listed cluster, and it issues at most one lookup per
\* candidate of the fixed list, one lookup per listed cluster in the exhaustive
\* pass, and one ListTasks and one DescribeTasks per listed cluster in the
\* heuristic pass.
C18_CallBound ==
  /\ [](Probing => idx \in 1..Len(list))
  /\ [][/\ pc = "enumProbe" => (idx' = idx + 1 \/ pc' = "taskEnd")
        /\ pc = "sbProbe" => (idx' = idx + 1 \/ pc' = "sbDescribe")
        /\ pc = "sbDescribe" => (idx' = idx + 1 \/ pc' = "taskEnd")]_vars
  /\ [](/\ Cardinality(CandidateCalls) <= 4
        /\ \A i, j \in CandidateCalls : calls[i].label = calls[j].label => i = j
        /\ Cardinality(CallsOf({"ListClusters"})) <= 2
        /\ Cardinality(ExhaustiveCalls) <= Len(ecs.clusterArns)
        /\ \A i, j \in ExhaustiveCalls \cup HeuristicCalls :
              (/\ calls[i].cluster = calls[j].cluster
               /\ calls[i].op = calls[j].op
               /\ calls[i].label = calls[j].label) => i = j
        /\ Cardinality(HeuristicCalls) <= 2 * Len(ecs.clusterArns))

\* both passes went over two clusters and the heuristic pass took two calls in one
C18_Witness ==
  /\ TaskPhaseOver /\ Len(ecs.clusterArns) >= 2
  /\ Cardinality(ExhaustiveCalls) = Len(ecs.clusterArns)
  /\ Cardinality(HeuristicCalls) > Len(ecs.clusterArns)
  /\ Cardinality(CandidateCalls) >= 3

\* some call with this label was issued
Attempted(label) == \E i \in 1..Len(calls) : calls[i].label = label

\* the listing of the pass with this label answered, and every cluster it
\* listed was probed with the operation op
AllProbed(listing, op, label) ==
  (\E i \in CallsOf({"ListClusters"}) : calls[i].label = listing /\ calls[i].ok) =>
     \A k \in 1..Len(ecs.clusterArns) :
        \E i \in CallsOf({op}) :
           calls[i].label = label /\ calls[i].cluster = ecs.clusterArns[k]

\* C19: when task resolution ends without a task, whatever the lookups threw,
\* every candidate that has an identifier was attempted, both passes listed the
\* clusters, and each pass whose listing answered probed every listed cluster.
C19_FallbackContinues ==
  (job.present /\ taskArn # NoArn /\ TaskPhaseOver /\ ~ecsTask.present) =>
     /\ parsedClusterArn # NoArn => Attempted("parsedClusterArn")
     /\ HintObtained # NoArn => Attempted("hintedClusterArn")
     /\ parsedClusterName # NoArn => Attempted("parsedCluster")
     /\ Attempted("noCluster")
     /\ Attempted("enumerate")
     /\ \E i \in CallsOf({"ListClusters"}) : calls[i].label = "startedBy"
     /\ AllProbed("enumerate", "DescribeTasks", "cluster")
     /\ AllProbed("startedBy", "ListTasks", "startedBy")

\* the task is in the first of two listed clusters and named by its ARN, every
\* lookup that would have found it threw, and the second cluster was probed
\* after each of them
C19_Witness ==
  /\ TaskPhaseOver /\ ~ecsTask.present /\ taskArn = TaskArnLong /\ threw
  /\ ecs.holder = "c1" /\ ecs.clusterArns = <<ArnOf("c1"), ArnOf("c2")>>
  /\ \E i \in ExhaustiveCalls : calls[i].cluster = ArnOf("c2")
  /\ \E i \in HeuristicCalls : calls[i].cluster = ArnOf("c2")
  /\ \E i \in HeuristicCalls : calls[i].op = "DescribeTasks" /\ calls[i].cluster = ArnOf("c1")

\* the DescribeTasks calls that ask for the job's task ARN (the one of the
\* heuristic pass asks for the tasks that were listed)
TaskArnLookups == {i \in CallsOf({"DescribeTasks"}) : calls[i].label # "startedBy"}

\* C20: a lookup of the task that failed is not issued again with the same
\* cluster identifier: no two DescribeTasks calls for the task ARN, the earlier
\* of which failed, carry the same cluster.
C20_NoVerbatimRetry ==
  \A i, j \in TaskArnLookups :
     (i < j /\ ~calls[i].ok) => calls[i].cluster # calls[j].cluster

\* the container of the job's last attempt, absent when there is no attempt or
\* the last one has no container
LatestAttemptContainer ==
  IF Len(batch.job.attempts) = 0 THEN NoContainer
  ELSE batch.job.attempts[Len(batch.job.attempts)].container

\* the task ARNs the job's last attempt and declared container carry
AuthoritativeTaskArns == {LatestAttemptContainer.taskArn, batch.job.container.taskArn} \ {NoArn}

\* C21: the chain's image, command and environment are those of the job's
\* declared container; its task ARN and log-stream name are the last attempt's
\* whenever that attempt carries them; and nothing of the chain, nor any cluster
\* a lookup is issued for, is read off an attempt other than the last.
C21_LatestAttemptAuthoritative ==
  batch.job.present =>
     /\ JobChain.image = batch.job.container.image
     /\ JobChain.command = batch.job.container.command
     /\ DOMAIN JobChain.environment =
           {batch.job.container.environment[i].name :
              i \in 1..Len(batch.job.container.environment)} \ {NoStr}
     /\ \A i \in 1..Len(batch.job.container.environment) :
           LET pair == batch.job.container.environment[i]
           IN (/\ pair.name # NoStr
               /\ \A k \in (i + 1)..Len(batch.job.container.environment) :
                     batch.job.container.environment[k].name # pair.name)
                 => JobChain.environment[pair.name] = pair.value
     /\ LatestAttemptContainer.taskArn # NoArn =>
           JobChain.taskArn = LatestAttemptContainer.taskArn
     /\ LatestAttemptContainer.logStreamName # NoStr =>
           JobChain.logStreamName = LatestAttemptContainer.logStreamName
     /\ JobChain.taskArn \in AuthoritativeTaskArns \cup {NoArn}
     /\ JobChain.logStreamName \in
           {LatestAttemptContainer.logStreamName, batch.job.container.logStreamName}
     /\ JobChain.container \in {LatestAttemptContainer, batch.job.container}
     /\ pc # "start" =>
           JobChain.containerInstanceArn \in
             {LatestAttemptContainer.containerInstanceArn,
              batch.job.container.containerInstanceArn, ecsTask.containerInstanceArn}
     /\ \A i \in CallsOf({"DescribeTasks"}) :
           /\ calls[i].label = "parsedClusterArn" =>
                 \E a \in AuthoritativeTaskArns : calls[i].cluster = clusterArnFromTaskArn(a)
           /\ calls[i].label = "parsedCluster" =>
                 \E a \in AuthoritativeTaskArns : calls[i].cluster = clusterFromTaskArn(a)

\* a chain returned for a job with two attempts, whose last attempt and declared
\* container differ in image, command, environment and log stream
C21_Witness ==
  /\ Returned /\ Len(batch.job.attempts) >= 2
  /\ LatestAttemptContainer.present
  /\ LatestAttemptContainer.image # batch.job.container.image
  /\ JobChain.image = batch.job.container.image
  /\ JobChain.command # LatestAttemptContainer.command
  /\ JobChain.environment["K"] = batch.job.container.image
  /\ JobChain.taskArn = LatestAttemptContainer.taskArn /\ JobChain.taskArn # NoArn
  /\ JobChain.logStreamName = LatestAttemptContainer.logStreamName
  /\ batch.job.container.logStreamName \notin {NoStr, JobChain.logStreamName}
  /\ batch.job.attempts[1].container.taskArn \notin {NoArn, JobChain.taskArn}

\* the job exists and neither its last attempt nor its declared container
\* names a log stream
NoStreamKnown ==
  /\ batch.job.present
  /\ LatestAttemptContainer.logStreamName = NoStr
  /\ batch.job.container.logStreamName = NoStr

\* C22: for a job without a log-stream name the resolution issues no
\* GetLogEvents, throws nothing and returns no log lines; the logs command, run
\* without --stream, then ends with 'No Logs available.' and exit code 0,
\* having fetched, polled and written nothing.
C22_NoStreamNoFetch ==
  NoStreamKnown =>
     /\ CallsOf({"GetLogEvents"}) = {}
     /\ ~Thrown /\ error = NoStr
     /\ ~lastLogLines.present
     /\ Returned => ~JobChain.lastLogLines.present /\ JobChain.logStreamName = NoStr
     /\ cmd.stream = NoStr =>
           /\ lpc \in {"begin", "noLogs"}
           /\ lpc = "noLogs" => Returned
           /\ streamName = NoStr
           /\ exitCode = 0
           /\ ~initialized /\ nextToken = -1
           /\ emitted = <<>> /\ printed = <<>>

\* the command to follow the logs ended with 'No Logs available.' for a job whose
\* task was resolved, in a world whose streams have events
C22_Witness ==
  /\ NoStreamKnown /\ cmd.stream = NoStr /\ cmd.follow
  /\ lpc = "noLogs" /\ Returned
  /\ ecsTask.present /\ Len(logs.stream) > 0
  /\ Len(calls) >= 5

\* the requests that only read: the Describe*, List* and Get* commands
ReadOnlyOps == {"DescribeJobs"} \cup Ops

\* the services whose clients sent the calls so far
ServicesCalled ==
  {CASE calls[i].op \in BatchOps \cup {"DescribeJobs"} -> "batch"
     [] calls[i].op \in TaskOps \cup {"DescribeContainerInstances"} -> "ecs"
     [] calls[i].op = "GetLogEvents" -> "logs"
     [] OTHER -> "ec2" : i \in 1..Len(calls)}

\* C23: no step of resolveJobChain changes the state of the scheduler, the
\* orchestrator, the compute service or the log service, and every request it
\* sends is a describe, list or get request.
C23_ReadOnly ==
  /\ [][batch' = batch /\ ecs' = ecs /\ ec2' = ec2 /\ logs' = logs]_vars
  /\ [](\A i \in 1..Len(calls) : calls[i].op \in ReadOnlyOps)

\* a resolution that returned after calls to all four services, the task, the
\* instance, the network and the log lines resolved
C23_Witness ==
  /\ Returned /\ ServicesCalled = {"batch", "ecs", "ec2", "logs"}
  /\ ecsTask.present /\ ec2Instance.present /\ vpc.present /\ lastLogLines.present
  /\ Len(calls) >= 9

\* ------------------------------------------- the resolution run twice
\* What dbg writes to stderr (lines 248-250, 267-272, 294): the keys traced at
\* this position of the resolution, none without the debug toggle.
Traced ==
  IF ~debugOn \/ pc \in {"start", "thrown"} THEN {}
  ELSE {"platformCapabilities", "isFargateJob", "isEksJob", "attempts.count",
        "attempt.container.hasTaskArn", "attempt.container.hasENIs",
        "job.container.taskArn", "job.queue", "region"}
       \cup (IF pc \in {"hintJQ", "hintCE"} THEN {} ELSE {"ecsClusterArn_hint_from_CE"})

\* the values BATCHI_DEBUG is given
DebugValues == {NoStr, "0", "1", "true"}

\* the first run of resolveJobChain
FirstRun ==
  /\ ~prior.done
  /\ Next

\* resolveJobChain has returned or thrown and is called again, the services
\* left as they are and BATCHI_DEBUG set anew
Again ==
  /\ ~prior.done
  /\ Returned \/ Thrown
  /\ prior' = [done |-> TRUE, env |-> env, calls |-> calls, chain |-> JobChain,
               error |-> error, hint |-> HintObtained, threw |-> threw]
  /\ \E d \in DebugValues : env' = [BATCHI_DEBUG |-> d]
  /\ pc' = "start"
  /\ error' = NoStr
  /\ calls' = <<>>
  /\ threw' = FALSE
  /\ ecsClusterArn' = NoArn
  /\ ecsTask' = NoTask
  /\ containerInstanceArn' = NoArn
  /\ ceArn' = NoStr
  /\ list' = <<>>
  /\ idx' = 0
  /\ ec2InstanceId' = NoStr
  /\ ec2Instance' = NoInstance
  /\ computeEnvironmentArn' = NoStr
  /\ computeEnvironment' = NoCe
  /\ ceArns' = <<>>
  /\ vpcId' = NoStr
  /\ subnetId' = NoStr
  /\ vpc' = NoVpc
  /\ lastLogLines' = NoLines
  /\ UNCHANGED <<worldVars, cmdVars>>

\* The services are stable: a request of the second run that is the request the
\* first run sent at the same place gets the answer it got then (a record, or
\* none: nothing found or the same error).
SameAnswer ==
  LET k == Len(calls')
  IN (/\ k > Len(calls) /\ k <= Len(prior.calls)
      /\ calls'[k].op = prior.calls[k].op
      /\ calls'[k].label = prior.calls[k].label
      /\ calls'[k].cluster = prior.calls[k].cluster)
        => calls'[k].ok = prior.calls[k].ok

\* the second run of resolveJobChain
SecondRun ==
  /\ prior.done
  /\ Next
  /\ SameAnswer

NextTwice ==
  \/ FirstRun
  \/ Again
  \/ SecondRun

\* Worlds for two runs: every job, holder and task record, two cluster
\* listings, the task operations failing or not; and a job with everything on
\* it whose other operations fail.
InitTwice ==
  /\ Start /\ CmdOff /\ prior = NoPrior
  /\ env \in {[BATCHI_DEBUG |-> d] : d \in {NoStr, "1"}}
  /\ ec2 = RichEc2
  /\ logs = RichLogs
  /\ opts = [logLines |-> -1]
  /\ \/ /\ batch \in [job : TaskJobs, ceOrder : {<<>>, <<"ceB", "ceA">>}]
        /\ ecs \in {e \in EcsStates(Holders, {<<>>, <<ArnOf("c1"), ArnOf("c2")>>}, {"i-1"}) :
                      EcsOk(e) /\ (taskArn = TaskArnLong => e.holder \in {NoStr, "c1"})}
        /\ faulty \in {{}, TaskOps}
     \/ /\ batch \in [job : {j \in FullJobs : j.computeEnvironment = NoStr},
                       ceOrder : {<<"ceB", "ceA">>}]
        /\ ecs = [holder |-> "c1",
                  task |-> [present |-> TRUE, clusterArn |-> ArnOf("c1"),
                            containerInstanceArn |-> CiArnTask],
                  clusterArns |-> <<ArnOf("c1")>>, ciInstance |-> NoStr]
        /\ faulty = HostOps \cup BatchOps \cup NetOps

SpecTwice == InitTwice /\ [][NextTwice]_vars

\* --------------------------------------- an account with many clusters
\* The listings of an account whose clusters do not fit on one page.
ScanLists ==
  { [i \in 1..Len(ClusterOrder) |-> ArnOf(ClusterOrder[((i + k) % Len(ClusterOrder)) + 1])] :
      k \in 0..(Len(ClusterOrder) - 1) }

\* The task, known by an ARN without cluster segment, is in any of the
\* account's clusters or in none; the task operations may throw.
InitScan ==
  /\ Start /\ CmdOff /\ RunOnce
  /\ batch \in [job : {j \in TaskJobs : j.present /\ j.attempts # <<>>},
                 ceOrder : {<<>>, <<"ceB", "ceA">>}]
  /\ ecs \in {e \in EcsStates({NoStr} \cup {ClusterOrder[k] : k \in 1..Len(ClusterOrder)},
                               ScanLists, {"i-1"}) :
                EcsOk(e) /\ (taskArn = TaskArnLong => e.holder \in {NoStr, "c1"})}
  /\ ec2 = RichEc2
  /\ logs = RichLogs
  /\ opts = [logLines |-> -1]
  /\ faulty \in {{}, TaskOps}

SpecScan == InitScan /\ [][Next]_vars

\* ------------------------------------------ task ARNs of every structure
\* The parts a task ARN is made of.
Partitions == {"aws", "aws-cn"}
Regions == {"r1", "r2"}
Accounts == {"a1", "a2"}
ClusterNames == {"c1", "c2"}
TaskIds == {"t1"}

\* arn:<partition>:ecs:<region>:<account>:task/<cluster>/<id> and the form
\* without the cluster segment
TaskArnOf(p, r, a, c, id) ==
  <<"arn", COLON, p, COLON, "ecs", COLON, r, COLON, a, COLON, "task", SLASH, c, SLASH, id>>
ShortTaskArnOf(p, r, a, id) ==
  <<"arn", COLON, p, COLON, "ecs", COLON, r, COLON, a, COLON, "task", SLASH, id>>

ParserInputs ==
  {TaskArnOf(p, r, a, c, id) :
     p \in Partitions, r \in Regions, a \in Accounts, c \in ClusterNames, id \in TaskIds}
  \cup {ShortTaskArnOf(p, r, a, id) :
           p \in Partitions, r \in Regions, a \in Accounts, id \in TaskIds}

\* A job whose last attempt carries any of these task ARNs; the task is in c1
\* or gone, and the task operations may throw.
InitParse ==
  /\ Start /\ CmdOff /\ RunOnce
  /\ batch \in [job : {Job(<<"EC2">>, <<[container |-> Container(t, NoArn, <<>>, NoStr, "img-a")]>>,
                            Container(NoArn, NoArn, <<>>, NoStr, "img-j"), NoStr) :
                         t \in ParserInputs},
                 ceOrder : {<<>>, <<"ceB", "ceA">>}]
  /\ ecs \in {e \in EcsStates({NoStr, "c1"}, {<<ArnOf("c2"), ArnOf("c1")>>}, {"i-1"}) :
                EcsOk(e) /\ (e.task.present => e.task.clusterArn # NoArn)}
  /\ ec2 = RichEc2
  /\ logs = RichLogs
  /\ opts = [logLines |-> -1]
  /\ faulty \in {{}, TaskOps}

SpecParse == InitParse /\ [][Next]_vars

DebugFlipped == prior.done /\ debugOn # (prior.env.BATCHI_DEBUG \in {"1", "true"})

\* C25: a run of resolveJobChain that differs from an earlier one only in the
\* debug toggle issues the same service calls in the same order and ends as
\* the earlier one did: with the same job chain, or with the same error.
C25_DebugBlind ==
  DebugFlipped =>
     /\ Len(calls) <= Len(prior.calls)
     /\ \A i \in 1..Len(calls) : calls[i] = prior.calls[i]
     /\ Returned => calls = prior.calls /\ JobChain = prior.chain /\ prior.error = NoStr
     /\ Thrown => calls = prior.calls /\ error = prior.error /\ error # NoStr

\* a traced run returned the chain of an untraced one, errors caught in both
C25_Witness ==
  /\ DebugFlipped /\ Returned /\ debugOn /\ Traced # {}
  /\ threw /\ prior.threw
  /\ JobChain = prior.chain /\ Len(calls) >= 8
  /\ \E i \in 1..Len(calls) : calls[i].op \in HostOps \cup NetOps /\ ~calls[i].ok

\* the cluster that holds the task is one of the account's clusters
HolderReachable ==
  /\ ecs.holder # NoStr
  /\ \E k \in 1..Len(ecs.clusterArns) : ecs.clusterArns[k] = ArnOf(ecs.holder)

\* C26: when the four candidate lookups found no task, no call failed and the
\* task is in one of the account's clusters, however many there are, the
\* exhaustive pass looks the task up in that cluster and the resolution has
\* the task with that cluster's ARN.
C26_ExhaustiveScanFinds ==
  (/\ job.present /\ taskArn # NoArn /\ TaskPhaseOver /\ ~threw
   /\ HolderReachable
   /\ \A i \in CandidateCalls : ~calls[i].ok) =>
     /\ \E i \in ExhaustiveCalls : calls[i].cluster = ArnOf(ecs.holder) /\ calls[i].ok
     /\ ecsTask.present /\ ecsTask = ecs.task
     /\ ecsClusterArn = ArnOf(ecs.holder)

\* the container record resolveJobChain returns, on the scheduler's record
AuthoritativeContainer ==
  IF LatestAttemptContainer.present THEN LatestAttemptContainer ELSE batch.job.container

\* the calls of the network-interface path of host derivation
EniPathCalls ==
  {i \in CallsOf({"DescribeNetworkInterfaces"}) : calls[i].label = "eniFallback"}

\* C27: the container instance is described before any network interface is;
\* the network-interface path is taken only when the container-instance path
\* gave no instance id, once, and for the first interface of the container
\* record; the instance is described at most once, after both paths, and only
\* with an instance id one of them gave.
C27_HostOrder ==
  /\ \A i \in EniPathCalls :
        /\ \A j \in CallsOf({"DescribeContainerInstances"}) : j < i /\ ~calls[j].ok
        /\ \A j \in EniPathCalls : j = i
        /\ Len(AuthoritativeContainer.networkInterfaces) > 0
        /\ calls[i].cluster = <<AuthoritativeContainer.networkInterfaces[1]>>
  /\ Cardinality(CallsOf({"DescribeContainerInstances"})) <= 1
  /\ Cardinality(CallsOf({"DescribeInstances"})) <= 1
  /\ \A i \in CallsOf({"DescribeInstances"}) :
        /\ \A j \in CallsOf({"DescribeContainerInstances"}) \cup EniPathCalls : j < i
        /\ ec2InstanceId # NoStr
        /\ \/ \E j \in CallsOf({"DescribeContainerInstances"}) :
                 calls[j].ok /\ ec2InstanceId = ecs.ciInstance
           \/ \E j \in EniPathCalls : calls[j].ok /\ ec2InstanceId = ec2.eni.InstanceId
  /\ (pc \in {"ce", "ceBatch", "vpcEni", "vpcSubnet", "vpcDescribe", "logs", "done"}
        /\ ec2InstanceId # NoStr) => CallsOf({"DescribeInstances"}) # {}

\* the container instance gave no instance id, the first of two interfaces
\* did, and the instance was described
C27_Witness ==
  /\ Returned /\ Len(AuthoritativeContainer.networkInterfaces) >= 2
  /\ \E j \in CallsOf({"DescribeContainerInstances"}) : ~calls[j].ok
  /\ \E j \in EniPathCalls : calls[j].ok
  /\ ec2InstanceId = ec2.eni.InstanceId /\ ec2InstanceId # ecs.ciInstance
  /\ ec2Instance.present
  /\ "DescribeContainerInstances" \notin faulty

\* arn:<partition>:ecs:<region>:<account>:cluster/<cluster>
ClusterArnOf(p, r, a, c) ==
  <<"arn", COLON, p, COLON, "ecs", COLON, r, COLON, a, COLON, "cluster", SLASH, c>>

\* the lookups issued for what was parsed off the task ARN
ParsedLookups(label) == {i \in CallsOf({"DescribeTasks"}) : calls[i].label = label}

\* C28: for the task ARN arn:p:ecs:r:a:task/c/id the parser gives the cluster
\* name c and the cluster ARN arn:p:ecs:r:a:cluster/c, partition, region and
\* account being the task ARN's, and these are what the lookups are issued
\* for; for a task ARN without cluster segment it gives neither.
C28_ParserStructural ==
  \A p \in Partitions, r \in Regions, a \in Accounts, id \in TaskIds :
     /\ \A c \in ClusterNames :
           LET arn == TaskArnOf(p, r, a, c, id)
           IN /\ clusterFromTaskArn(arn) = <<c>>
              /\ clusterArnFromTaskArn(arn) = ClusterArnOf(p, r, a, c)
              /\ batch.job.attempts[1].container.taskArn = arn =>
                    /\ \A i \in ParsedLookups("parsedClusterArn") :
                          calls[i].cluster = ClusterArnOf(p, r, a, c)
                    /\ \A i \in ParsedLookups("parsedCluster") : calls[i].cluster = <<c>>
     /\ LET arn == ShortTaskArnOf(p, r, a, id)
        IN /\ clusterFromTaskArn(arn) = NoArn
           /\ clusterArnFromTaskArn(arn) = NoArn
           /\ batch.job.attempts[1].container.taskArn = arn =>
                 ParsedLookups("parsedClusterArn") \cup ParsedLookups("parsedCluster") = {}

\* C29: in every chain returned a task record comes with a task ARN, an
\* instance record with an instance id, log lines with a log-stream name, and
\* the container-instance reference is the task's own when the task has one.
C29_ChainDependencies ==
  Returned =>
     /\ JobChain.ecsTask.present => JobChain.taskArn # NoArn
     /\ JobChain.ec2Instance.present => JobChain.ec2InstanceId # NoStr
     /\ JobChain.lastLogLines.present => JobChain.logStreamName # NoStr
     /\ (JobChain.ecsTask.present /\ JobChain.ecsTask.containerInstanceArn # NoArn) =>
           JobChain.containerInstanceArn = JobChain.ecsTask.containerInstanceArn

\* a chain with task, instance and log lines whose task names another
\* container instance than the job's attempt does
C29_Witness ==
  /\ Returned
  /\ JobChain.ecsTask.present /\ JobChain.ec2Instance.present /\ JobChain.lastLogLines.present
  /\ LatestAttemptContainer.containerInstanceArn # NoArn
  /\ JobChain.ecsTask.containerInstanceArn # NoArn
  /\ JobChain.ecsTask.containerInstanceArn # LatestAttemptContainer.containerInstanceArn
  /\ JobChain.containerInstanceArn = JobChain.ecsTask.containerInstanceArn

\* ------------------------------ the helper resolveTask (lines 129-220)
\* The helper's arguments are the job's task ARN and the hint the inlined block
\* had (prior.hint); its result { task, clusterArn } is kept in ecsTask and
\* ecsClusterArn, and its calls carry the labels of the inlined block's.
\* lines 139-161: the candidates, in the order they are pushed
tries ==
  (IF prior.hint # NoArn
   THEN <<[label |-> "hintedClusterArn", cluster |-> prior.hint]>> ELSE <<>>)
  \o (IF clusterArnFromTaskArn(taskArn) # NoArn
      THEN <<[label |-> "parsedClusterArn", cluster |-> clusterArnFromTaskArn(taskArn)]>>
      ELSE <<>>)
  \o (IF clusterFromTaskArn(taskArn) # NoArn
      THEN <<[label |-> "parsedCluster", cluster |-> clusterFromTaskArn(taskArn)]>>
      ELSE <<>>)
  \o <<[label |-> "noCluster", cluster |-> NoArn]>>

ResolveTaskFrame ==
  UNCHANGED <<runVars, cmdVars, worldVars, error, containerInstanceArn, ceArn, hostVars,
              ceVars, vpcVars, lastLogLines>>

\* the inlined block (lines 301-417) and what comes before it
InlineBlock ==
  /\ ~prior.done
  /\ ~TaskPhaseOver
  /\ Next

\* resolveTask(ecs, jobId, taskArn, hintedClusterArn) is called in the world
\* the inlined block has just run in
CallResolveTask ==
  /\ ~prior.done
  /\ pc = "ci" /\ taskArn # NoArn
  /\ prior' = [done |-> TRUE, env |-> env, calls |-> calls, chain |-> JobChain,
               error |-> error, hint |-> HintObtained, threw |-> threw]
  /\ pc' = "rtTry"
  /\ calls' = <<>>
  /\ threw' = FALSE
  /\ ecsTask' = NoTask
  /\ ecsClusterArn' = NoArn
  /\ list' = <<>>
  /\ idx' = 1
  /\ UNCHANGED <<env, cmdVars, worldVars, error, containerInstanceArn, ceArn, hostVars,
                 ceVars, vpcVars, lastLogLines>>

\* lines 163-174: one candidate of the loop over tries
ResolveTaskTry ==
  /\ pc = "rtTry"
  /\ \E t \in {NoTask, TaskIn(tries[idx].cluster)} :
       /\ DescribeTasks(tries[idx].label, tries[idx].cluster, t)
       /\ IF t.present
          THEN /\ ecsTask' = t
               /\ ecsClusterArn' = Or(t.clusterArn, tries[idx].cluster)
               /\ pc' = "rtReturned"
               /\ UNCHANGED idx
          ELSE /\ idx' = idx + 1
               /\ pc' = IF idx + 1 > Len(tries) THEN "rtEnumList" ELSE "rtTry"
               /\ UNCHANGED <<ecsTask, ecsClusterArn>>
  /\ UNCHANGED list
  /\ ResolveTaskFrame

\* lines 177-179 and 191-193
ResolveTaskListClusters ==
  /\ pc = "rtEnumList"
  /\ ListClusters("enumerate", "rtEnumProbe", "rtSbList")
  /\ UNCHANGED <<ecsTask, ecsClusterArn>>
  /\ ResolveTaskFrame

\* lines 179-190
ResolveTaskEnumerated ==
  /\ pc = "rtEnumProbe"
  /\ \E t \in {NoTask, TaskIn(list[idx])} :
       /\ DescribeTasks("cluster", list[idx], t)
       /\ IF t.present
          THEN /\ ecsTask' = t
               /\ ecsClusterArn' = list[idx]
               /\ pc' = "rtReturned"
               /\ UNCHANGED idx
          ELSE /\ idx' = idx + 1
               /\ pc' = NextCluster("rtEnumProbe", "rtSbList")
               /\ UNCHANGED <<ecsTask, ecsClusterArn>>
  /\ UNCHANGED list
  /\ ResolveTaskFrame

\* lines 196-198 and 214-216
ResolveTaskStartedByListClusters ==
  /\ pc = "rtSbList"
  /\ ListClusters("startedBy", "rtSbProbe", "rtReturned")
  /\ UNCHANGED <<ecsTask, ecsClusterArn>>
  /\ ResolveTaskFrame

\* lines 199-204 and 210-212
ResolveTaskListTasks ==
  /\ pc = "rtSbProbe"
  /\ \/ /\ Throws("ListTasks", "startedBy", list[idx])
        /\ idx' = idx + 1
        /\ pc' = NextCluster("rtSbProbe", "rtReturned")
     \/ /\ Issue("ListTasks", "startedBy", list[idx], TaskIn(list[idx]).present)
        /\ IF TaskIn(list[idx]).present
           THEN pc' = "rtSbDescribe" /\ UNCHANGED idx
           ELSE pc' = NextCluster("rtSbProbe", "rtReturned") /\ idx' = idx + 1
        /\ UNCHANGED threw
  /\ UNCHANGED <<ecsTask, ecsClusterArn, list>>
  /\ ResolveTaskFrame

\* lines 205-212
ResolveTaskStartedByDescribe ==
  /\ pc = "rtSbDescribe"
  /\ \E t \in {NoTask, TaskIn(list[idx])} :
       /\ DescribeTasks("startedBy", list[idx], t)
       /\ IF t.present
          THEN /\ ecsTask' = t
               /\ ecsClusterArn' = list[idx]
               /\ pc' = "rtReturned"
               /\ UNCHANGED idx
          ELSE /\ idx' = idx + 1
               /\ pc' = NextCluster("rtSbProbe", "rtReturned")
               /\ UNCHANGED <<ecsTask, ecsClusterArn>>
  /\ UNCHANGED list
  /\ ResolveTaskFrame

NextHelper ==
  \/ InlineBlock
  \/ CallResolveTask
  \/ ResolveTaskTry
  \/ ResolveTaskListClusters
  \/ ResolveTaskEnumerated
  \/ ResolveTaskStartedByListClusters
  \/ ResolveTaskListTasks
  \/ ResolveTaskStartedByDescribe

\* Every job with a task ARN, every holder and task record, two listings and
\* queue orders; the task operations may throw.
InitHelper ==
  /\ Start /\ CmdOff /\ RunOnce
  /\ batch \in [job : {j \in TaskJobs : j.present}, ceOrder : QueueOrders]
  /\ ecs \in {e \in EcsStates(Holders, {<<>>, <<ArnOf("c1"), ArnOf("c2")>>}, {"i-1"}) :
                EcsOk(e) /\ (taskArn = TaskArnLong => e.holder \in {NoStr, "c1"})}
  /\ ec2 = RichEc2
  /\ logs = RichLogs
  /\ opts = [logLines |-> -1]
  /\ faulty \in {{}, TaskOps}

SpecHelper == InitHelper /\ [][NextHelper]_vars

\* the requests sent to the orchestrator for the task: operation and cluster
Lookups(cs) ==
  LET sent == SelectSeq(cs, LAMBDA c : c.op \in TaskOps)
  IN [i \in 1..Len(sent) |-> [op |-> sent[i].op, cluster |-> sent[i].cluster]]

\* C30: run in the same world with the same task ARN and hint, no call
\* failing, the helper resolveTask sends the requests the inlined block of
\* resolveJobChain sent, in the same order, and returns the task and the
\* cluster ARN the block ended with.
C30_HelperEquivalent ==
  (pc = "rtReturned" /\ ~threw /\ ~prior.threw) =>
     /\ Lookups(calls) = Lookups(prior.calls)
     /\ ecsTask = prior.chain.ecsTask
     /\ ecsClusterArn = prior.chain.ecsClusterArn

====
